---------------------------- MODULE Spec2Model ----------------------------
(***************************************************************************)
(* FestivalFriend: the knowledge-base merge (storage.py), the atomic save, *)
(* the MusicBrainz classification client (classifier.py), the OCR name     *)
(* validator (ocr.py) and the two background workers of app.py, as state   *)
(* machines.                                                               *)
(*                                                                         *)
(* Python strings are atomic values in TLA+, so every string the code      *)
(* inspects character by character is paired with its character sequence   *)
(* (NameChars); strip() and lower() are computed on those sequences.       *)
(***************************************************************************)
EXTENDS Integers, Sequences, FiniteSets, TLC

\* ------------------------------------------------------------------ bounds

\* Number of merge_artists calls SpecMerge makes in a row.
MaxClock == 2

\* Python's recursion limit (sys.getrecursionlimit(), 1000 by default), scaled
\* down: the depth at which a further recursive call raises RecursionError.
RecursionLimit == 4

\* Number of write() calls json.dump needs for one document.
DocChunks == 2

\* ------------------------------------------------------------------- state

VARIABLES
    store,        \* SpecMerge: the knowledge base a sequence of merges has built
    storeBefore,  \* SpecMerge: the knowledge base before the last merge
    call,         \* SpecMerge: the arguments of the last merge_artists call
    clock,        \* datetime.now(), as a logical clock
    file,         \* config.DATA_FILE on disk
    tmp,          \* the temporary file of each unit's save_data
    crashed,      \* the process has crashed
    pc,           \* each unit of work's position in its worker
    kind,         \* "web" (_run_classification) or "image" (_run_ocr_and_classify)
    job,          \* app.jobs: each unit's progress record
    unitNames,    \* artist_names (web) or the OCR candidates (image)
    fest,         \* festival_info
    unitData,     \* the worker's local data
    cls,          \* classifications
    validated,    \* validated_names (image)
    idx,          \* the loop index over names, from 1
    cur,          \* the name classify_artist is working on
    attempts,     \* requests issued so far by the current request and its retries
    raised,       \* the names for which classify_artist raised (history)
    progress,     \* the on_progress calls of classify_batch, in order (history)
    sent,         \* the requests classify_artist has sent, counted (history)
    scope,        \* "wide": every input and answer below; "narrow": a few
    fn,           \* SpecFn: the function called, "" before the call
    arg,          \* SpecFn: its arguments
    res           \* SpecFn: its result

\* ----------------------------------------------------------------- strings

UpperCase ==
    <<"A", "B", "C", "D", "E", "F", "G", "H", "I", "J", "K", "L", "M",
      "N", "O", "P", "Q", "R", "S", "T", "U", "V", "W", "X", "Y", "Z">>

LowerCase ==
    <<"a", "b", "c", "d", "e", "f", "g", "h", "i", "j", "k", "l", "m",
      "n", "o", "p", "q", "r", "s", "t", "u", "v", "w", "x", "y", "z">>

\* str.lower() on one character.
LowerChar(c) ==
    IF \E i \in 1..Len(UpperCase) : UpperCase[i] = c
    THEN LowerCase[CHOOSE i \in 1..Len(UpperCase) : UpperCase[i] = c]
    ELSE c

\* str.lower()
Lower(cs) == [i \in 1..Len(cs) |-> LowerChar(cs[i])]

IsSpace(c) == c = " "

\* str.strip(): drops the leading and the trailing whitespace.
Strip(cs) ==
    LET nonblank == {i \in 1..Len(cs) : ~IsSpace(cs[i])}
    IN  IF nonblank = {} THEN <<>>
        ELSE LET lo == CHOOSE i \in nonblank : \A j \in nonblank : i <= j
                 hi == CHOOSE i \in nonblank : \A j \in nonblank : i >= j
             IN  SubSeq(cs, lo, hi)

\* The names of the model and their characters.  "Abc" is what a page or a
\* poster shows, " abc" a spelling the metadata service may return, "Abd" an
\* OCR misreading of "Abc"; "abc", "abd" and "xyz" are the normalized keys.
NameChars ==
    [s \in {"Abc", " abc", "Abd", "Xyz", "abc", "abd", "xyz",
            "Abcde", "abcde", "Abxyz", "abxyz"} |->
        CASE s = "Abc"  -> <<"A", "b", "c">>
          [] s = " abc" -> <<" ", "a", "b", "c">>
          [] s = "Abd"  -> <<"A", "b", "d">>
          [] s = "Xyz"  -> <<"X", "y", "z">>
          [] s = "abc"  -> <<"a", "b", "c">>
          [] s = "abd"  -> <<"a", "b", "d">>
          [] s = "xyz"  -> <<"x", "y", "z">>
          [] s = "Abcde" -> <<"A", "b", "c", "d", "e">>
          [] s = "abcde" -> <<"a", "b", "c", "d", "e">>
          [] s = "Abxyz" -> <<"A", "b", "x", "y", "z">>
          [] s = "abxyz" -> <<"a", "b", "x", "y", "z">>]

\* The string whose characters are cs.
FromChars(cs) == CHOOSE s \in DOMAIN NameChars : NameChars[s] = cs

\* name.strip().lower(), computed once for every name of the model.
NormalizedNames ==
    [s \in DOMAIN NameChars |-> FromChars(Lower(Strip(NameChars[s])))]

\* Mutant of NormalizeName: the name is the key as it is written.
NormalizeNameExact(name) == name

\* storage._normalize_name
NormalizeName(name) == NormalizedNames[name]

\* --------------------------------------------------------- knowledge base

UNKNOWN == <<"unknown">>

\* storage._empty_data; last_modified 0 stands for None, timestamps are >= 1.
EmptyData ==
    [artists |-> <<>>,
     festivals |-> <<>>,
     metadata |-> [version |-> 1, last_modified |-> 0]]

\* existing.get("genres") and existing["genres"] != ["unknown"]
HasRealGenres(artist) == artist.genres # <<>> /\ artist.genres # UNKNOWN

\* classifications.get(name, {"genres": [], "timbre": []})
ClassificationOf(classifications, name) ==
    IF name \in DOMAIN classifications
    THEN classifications[name]
    ELSE [genres |-> <<>>, timbre |-> <<>>]

\* Mutant of FestivalUrlExists: the url is never found.
FestivalUrlNeverExists(data, url) == FALSE

\* any(f["url"] == festival_info["url"] for f in data["festivals"])
FestivalUrlExists(data, url) ==
    \E i \in 1..Len(data.festivals) : data.festivals[i].url = url

\* Mutant of ArtistHasUrl: the url is never found among the artist's festivals.
ArtistNeverHasUrl(artist, url) == FALSE

\* festival_info["url"] in {f["url"] for f in artist["festivals"]}
ArtistHasUrl(artist, url) ==
    \E i \in 1..Len(artist.festivals) : artist.festivals[i].url = url

\* Mutant of GotNewData: the stored classification is always replaced.
AlwaysNewData(classification) == TRUE

\* if classification["genres"]: a non-empty list is truthy, ["unknown"] included.
GotNewData(classification) == classification.genres # <<>>

\* One iteration of merge_artists' loop over artist_names.
MergeName(artists, name, classifications, festival_entry, now) ==
    LET key == NormalizeName(name)
        classification == ClassificationOf(classifications, name)
    IN  IF key \in DOMAIN artists
        THEN LET artist == artists[key]
                 fests == IF ArtistHasUrl(artist, festival_entry.url)
                          THEN artist.festivals
                          ELSE Append(artist.festivals, festival_entry)
                 upd == GotNewData(classification)
             IN  [artists EXCEPT ![key] =
                     [artist EXCEPT
                        !.festivals = fests,
                        !.genres = IF upd THEN classification.genres ELSE @,
                        !.timbre = IF upd THEN classification.timbre ELSE @,
                        !.last_updated = now]]
        ELSE (key :> [name |-> name,
                      genres |-> classification.genres,
                      timbre |-> classification.timbre,
                      festivals |-> <<festival_entry>>,
                      first_seen |-> now,
                      last_updated |-> now]) @@ artists

RECURSIVE MergeNames(_, _, _, _, _, _)
\* for name in artist_names: ... , from the i-th name on.
MergeNames(artists, artist_names, i, classifications, festival_entry, now) ==
    IF i > Len(artist_names) THEN artists
    ELSE MergeNames(
            MergeName(artists, artist_names[i], classifications, festival_entry, now),
            artist_names, i + 1, classifications, festival_entry, now)

\* storage.merge_artists; now is datetime.now() read at its first line.
MergeArtists(data, artist_names, classifications, festival_info, now) ==
    LET festival_entry ==
            [name |-> festival_info.name, url |-> festival_info.url,
             date_scraped |-> now]
        festivals ==
            IF FestivalUrlExists(data, festival_info.url)
            THEN data.festivals
            ELSE Append(data.festivals,
                        [name |-> festival_info.name, url |-> festival_info.url,
                         date_scraped |-> now,
                         artist_count |-> Len(artist_names)])
    IN  [data EXCEPT
            !.festivals = festivals,
            !.artists = MergeNames(data.artists, artist_names, 1,
                                   classifications, festival_entry, now)]

\* ------------------------------------------------------ classifier: tags

\* classifier.TIMBRE_MAP, in its insertion order ("musique concrete" is written
\* without its accent).
TIMBRE_MAP ==
    <<[descriptor |-> "energetic",
       keywords |-> <<"punk", "hardcore", "metal", "thrash", "power metal", "hard rock", "drum and bass", "gabber">>],
      [descriptor |-> "chill",
       keywords |-> <<"ambient", "chillout", "lo-fi", "downtempo", "trip-hop", "lounge", "new age", "easy listening">>],
      [descriptor |-> "dark",
       keywords |-> <<"gothic", "darkwave", "doom", "black metal", "death metal", "industrial", "dark ambient", "witch house">>],
      [descriptor |-> "dreamy",
       keywords |-> <<"shoegaze", "dream pop", "ethereal", "ambient pop", "slowcore", "chamber pop">>],
      [descriptor |-> "groovy",
       keywords |-> <<"funk", "disco", "house", "soul", "groove", "dancehall", "afrobeat", "boogie">>],
      [descriptor |-> "melodic",
       keywords |-> <<"pop", "singer-songwriter", "folk", "baroque pop", "power pop", "indie pop", "soft rock">>],
      [descriptor |-> "heavy",
       keywords |-> <<"metal", "sludge", "stoner rock", "grunge", "noise rock", "post-metal", "djent">>],
      [descriptor |-> "atmospheric",
       keywords |-> <<"post-rock", "ambient", "shoegaze", "space rock", "drone", "ethereal wave">>],
      [descriptor |-> "raw",
       keywords |-> <<"garage rock", "punk", "lo-fi", "noise", "grindcore", "crust punk", "post-punk">>],
      [descriptor |-> "experimental",
       keywords |-> <<"avant-garde", "experimental", "noise", "art rock", "free jazz", "musique concrete">>],
      [descriptor |-> "smooth",
       keywords |-> <<"r&b", "soul", "jazz", "smooth jazz", "neo soul", "quiet storm", "bossa nova">>],
      [descriptor |-> "uplifting",
       keywords |-> <<"trance", "euphoric", "gospel", "reggae", "ska", "happy hardcore">>],
      [descriptor |-> "electronic",
       keywords |-> <<"electronic", "techno", "house", "edm", "synth", "electro", "idm", "dubstep">>],
      [descriptor |-> "acoustic",
       keywords |-> <<"acoustic", "folk", "unplugged", "bluegrass", "country", "americana">>]>>

\* The tags of the model: TIMBRE_MAP's keywords and the tags the service returns here.
TagWords ==
    {"punk", "hardcore", "metal", "thrash", "power metal",
     "hard rock", "drum and bass", "gabber", "ambient", "chillout",
     "lo-fi", "downtempo", "trip-hop", "lounge", "new age",
     "easy listening", "gothic", "darkwave", "doom", "black metal",
     "death metal", "industrial", "dark ambient", "witch house", "shoegaze",
     "dream pop", "ethereal", "ambient pop", "slowcore", "chamber pop",
     "funk", "disco", "house", "soul", "groove",
     "dancehall", "afrobeat", "boogie", "pop", "singer-songwriter",
     "folk", "baroque pop", "power pop", "indie pop", "soft rock",
     "sludge", "stoner rock", "grunge", "noise rock", "post-metal",
     "djent", "post-rock", "space rock", "drone", "ethereal wave",
     "garage rock", "noise", "grindcore", "crust punk", "post-punk",
     "avant-garde", "experimental", "art rock", "free jazz", "musique concrete",
     "r&b", "jazz", "smooth jazz", "neo soul", "quiet storm",
     "bossa nova", "trance", "euphoric", "gospel", "reggae",
     "ska", "happy hardcore", "electronic", "techno", "edm",
     "synth", "electro", "idm", "dubstep", "acoustic",
     "unplugged", "bluegrass", "country", "americana", "american",
     "2020s", "seen live", "k-pop",
     "House"}

\* The characters of each tag.
TagChars ==
    [s \in TagWords |->
        CASE s = "punk" -> <<"p", "u", "n", "k">>
          [] s = "hardcore" -> <<"h", "a", "r", "d", "c", "o", "r", "e">>
          [] s = "metal" -> <<"m", "e", "t", "a", "l">>
          [] s = "thrash" -> <<"t", "h", "r", "a", "s", "h">>
          [] s = "power metal" -> <<"p", "o", "w", "e", "r", " ", "m", "e", "t", "a", "l">>
          [] s = "hard rock" -> <<"h", "a", "r", "d", " ", "r", "o", "c", "k">>
          [] s = "drum and bass" -> <<"d", "r", "u", "m", " ", "a", "n", "d", " ", "b", "a", "s", "s">>
          [] s = "gabber" -> <<"g", "a", "b", "b", "e", "r">>
          [] s = "ambient" -> <<"a", "m", "b", "i", "e", "n", "t">>
          [] s = "chillout" -> <<"c", "h", "i", "l", "l", "o", "u", "t">>
          [] s = "lo-fi" -> <<"l", "o", "-", "f", "i">>
          [] s = "downtempo" -> <<"d", "o", "w", "n", "t", "e", "m", "p", "o">>
          [] s = "trip-hop" -> <<"t", "r", "i", "p", "-", "h", "o", "p">>
          [] s = "lounge" -> <<"l", "o", "u", "n", "g", "e">>
          [] s = "new age" -> <<"n", "e", "w", " ", "a", "g", "e">>
          [] s = "easy listening" -> <<"e", "a", "s", "y", " ", "l", "i", "s", "t", "e", "n", "i", "n", "g">>
          [] s = "gothic" -> <<"g", "o", "t", "h", "i", "c">>
          [] s = "darkwave" -> <<"d", "a", "r", "k", "w", "a", "v", "e">>
          [] s = "doom" -> <<"d", "o", "o", "m">>
          [] s = "black metal" -> <<"b", "l", "a", "c", "k", " ", "m", "e", "t", "a", "l">>
          [] s = "death metal" -> <<"d", "e", "a", "t", "h", " ", "m", "e", "t", "a", "l">>
          [] s = "industrial" -> <<"i", "n", "d", "u", "s", "t", "r", "i", "a", "l">>
          [] s = "dark ambient" -> <<"d", "a", "r", "k", " ", "a", "m", "b", "i", "e", "n", "t">>
          [] s = "witch house" -> <<"w", "i", "t", "c", "h", " ", "h", "o", "u", "s", "e">>
          [] s = "shoegaze" -> <<"s", "h", "o", "e", "g", "a", "z", "e">>
          [] s = "dream pop" -> <<"d", "r", "e", "a", "m", " ", "p", "o", "p">>
          [] s = "ethereal" -> <<"e", "t", "h", "e", "r", "e", "a", "l">>
          [] s = "ambient pop" -> <<"a", "m", "b", "i", "e", "n", "t", " ", "p", "o", "p">>
          [] s = "slowcore" -> <<"s", "l", "o", "w", "c", "o", "r", "e">>
          [] s = "chamber pop" -> <<"c", "h", "a", "m", "b", "e", "r", " ", "p", "o", "p">>
          [] s = "funk" -> <<"f", "u", "n", "k">>
          [] s = "disco" -> <<"d", "i", "s", "c", "o">>
          [] s = "house" -> <<"h", "o", "u", "s", "e">>
          [] s = "soul" -> <<"s", "o", "u", "l">>
          [] s = "groove" -> <<"g", "r", "o", "o", "v", "e">>
          [] s = "dancehall" -> <<"d", "a", "n", "c", "e", "h", "a", "l", "l">>
          [] s = "afrobeat" -> <<"a", "f", "r", "o", "b", "e", "a", "t">>
          [] s = "boogie" -> <<"b", "o", "o", "g", "i", "e">>
          [] s = "pop" -> <<"p", "o", "p">>
          [] s = "singer-songwriter" -> <<"s", "i", "n", "g", "e", "r", "-", "s", "o", "n", "g", "w", "r", "i", "t", "e", "r">>
          [] s = "folk" -> <<"f", "o", "l", "k">>
          [] s = "baroque pop" -> <<"b", "a", "r", "o", "q", "u", "e", " ", "p", "o", "p">>
          [] s = "power pop" -> <<"p", "o", "w", "e", "r", " ", "p", "o", "p">>
          [] s = "indie pop" -> <<"i", "n", "d", "i", "e", " ", "p", "o", "p">>
          [] s = "soft rock" -> <<"s", "o", "f", "t", " ", "r", "o", "c", "k">>
          [] s = "sludge" -> <<"s", "l", "u", "d", "g", "e">>
          [] s = "stoner rock" -> <<"s", "t", "o", "n", "e", "r", " ", "r", "o", "c", "k">>
          [] s = "grunge" -> <<"g", "r", "u", "n", "g", "e">>
          [] s = "noise rock" -> <<"n", "o", "i", "s", "e", " ", "r", "o", "c", "k">>
          [] s = "post-metal" -> <<"p", "o", "s", "t", "-", "m", "e", "t", "a", "l">>
          [] s = "djent" -> <<"d", "j", "e", "n", "t">>
          [] s = "post-rock" -> <<"p", "o", "s", "t", "-", "r", "o", "c", "k">>
          [] s = "space rock" -> <<"s", "p", "a", "c", "e", " ", "r", "o", "c", "k">>
          [] s = "drone" -> <<"d", "r", "o", "n", "e">>
          [] s = "ethereal wave" -> <<"e", "t", "h", "e", "r", "e", "a", "l", " ", "w", "a", "v", "e">>
          [] s = "garage rock" -> <<"g", "a", "r", "a", "g", "e", " ", "r", "o", "c", "k">>
          [] s = "noise" -> <<"n", "o", "i", "s", "e">>
          [] s = "grindcore" -> <<"g", "r", "i", "n", "d", "c", "o", "r", "e">>
          [] s = "crust punk" -> <<"c", "r", "u", "s", "t", " ", "p", "u", "n", "k">>
          [] s = "post-punk" -> <<"p", "o", "s", "t", "-", "p", "u", "n", "k">>
          [] s = "avant-garde" -> <<"a", "v", "a", "n", "t", "-", "g", "a", "r", "d", "e">>
          [] s = "experimental" -> <<"e", "x", "p", "e", "r", "i", "m", "e", "n", "t", "a", "l">>
          [] s = "art rock" -> <<"a", "r", "t", " ", "r", "o", "c", "k">>
          [] s = "free jazz" -> <<"f", "r", "e", "e", " ", "j", "a", "z", "z">>
          [] s = "musique concrete" -> <<"m", "u", "s", "i", "q", "u", "e", " ", "c", "o", "n", "c", "r", "e", "t", "e">>
          [] s = "r&b" -> <<"r", "&", "b">>
          [] s = "jazz" -> <<"j", "a", "z", "z">>
          [] s = "smooth jazz" -> <<"s", "m", "o", "o", "t", "h", " ", "j", "a", "z", "z">>
          [] s = "neo soul" -> <<"n", "e", "o", " ", "s", "o", "u", "l">>
          [] s = "quiet storm" -> <<"q", "u", "i", "e", "t", " ", "s", "t", "o", "r", "m">>
          [] s = "bossa nova" -> <<"b", "o", "s", "s", "a", " ", "n", "o", "v", "a">>
          [] s = "trance" -> <<"t", "r", "a", "n", "c", "e">>
          [] s = "euphoric" -> <<"e", "u", "p", "h", "o", "r", "i", "c">>
          [] s = "gospel" -> <<"g", "o", "s", "p", "e", "l">>
          [] s = "reggae" -> <<"r", "e", "g", "g", "a", "e">>
          [] s = "ska" -> <<"s", "k", "a">>
          [] s = "happy hardcore" -> <<"h", "a", "p", "p", "y", " ", "h", "a", "r", "d", "c", "o", "r", "e">>
          [] s = "electronic" -> <<"e", "l", "e", "c", "t", "r", "o", "n", "i", "c">>
          [] s = "techno" -> <<"t", "e", "c", "h", "n", "o">>
          [] s = "edm" -> <<"e", "d", "m">>
          [] s = "synth" -> <<"s", "y", "n", "t", "h">>
          [] s = "electro" -> <<"e", "l", "e", "c", "t", "r", "o">>
          [] s = "idm" -> <<"i", "d", "m">>
          [] s = "dubstep" -> <<"d", "u", "b", "s", "t", "e", "p">>
          [] s = "acoustic" -> <<"a", "c", "o", "u", "s", "t", "i", "c">>
          [] s = "unplugged" -> <<"u", "n", "p", "l", "u", "g", "g", "e", "d">>
          [] s = "bluegrass" -> <<"b", "l", "u", "e", "g", "r", "a", "s", "s">>
          [] s = "country" -> <<"c", "o", "u", "n", "t", "r", "y">>
          [] s = "americana" -> <<"a", "m", "e", "r", "i", "c", "a", "n", "a">>
          [] s = "american" -> <<"a", "m", "e", "r", "i", "c", "a", "n">>
          [] s = "2020s" -> <<"2", "0", "2", "0", "s">>
          [] s = "seen live" -> <<"s", "e", "e", "n", " ", "l", "i", "v", "e">>
          [] s = "k-pop" -> <<"k", "-", "p", "o", "p">>
          [] s = "House" -> <<"H", "o", "u", "s", "e">>]

\* The tag whose characters are cs.
TagFromChars(cs) == CHOOSE s \in TagWords : TagChars[s] = cs

\* t["name"].lower()
LowerTag(t) == TagFromChars(Lower(TagChars[t]))

IsDigit(c) == c \in {"0", "1", "2", "3", "4", "5", "6", "7", "8", "9"}

AllDigits(cs) == \A i \in 1..Len(cs) : IsDigit(cs[i])

\* The literal alternatives of classifier._NON_GENRE_PATTERN.
NonGenreWords ==
    {"american", "british", "english", "irish", "scottish", "welsh",
     "australian", "canadian", "french", "german", "italian", "spanish",
     "dutch", "swedish", "norwegian", "danish", "finnish", "japanese",
     "korean", "chinese", "brazilian", "mexican", "colombian", "argentine",
     "african", "nigerian", "south african", "jamaican", "cuban",
     "puerto rican", "indian", "russian", "polish", "belgian", "austrian",
     "swiss", "portuguese", "icelandic", "new zealand",
     "male vocalist", "male vocalists", "female vocalist", "female vocalists",
     "seen live", "favorite", "favorites", "favourite", "favourites", "spotify"}

\* _NON_GENRE_PATTERN.match(t): \d{4}s? | a literal | under \d+ | \d+s, anchored.
IsNonGenre(t) ==
    LET cs == TagChars[t]
        n == Len(cs)
    IN  \/ n = 4 /\ AllDigits(cs)
        \/ n = 5 /\ AllDigits(SubSeq(cs, 1, 4)) /\ cs[5] = "s"
        \/ t \in NonGenreWords
        \/ n > 6 /\ SubSeq(cs, 1, 6) = <<"u", "n", "d", "e", "r", " ">>
                 /\ AllDigits(SubSeq(cs, 7, n))
        \/ n > 1 /\ AllDigits(SubSeq(cs, 1, n - 1)) /\ cs[n] = "s"

\* tags[:k]
Take(seq, k) == SubSeq(seq, 1, IF Len(seq) < k THEN Len(seq) ELSE k)

\* [t for t in tags if not _NON_GENRE_PATTERN.match(t)]
GenreTags(tags) == SelectSeq(tags, LAMBDA t : ~IsNonGenre(t))

\* classifier._tags_to_genres
TagsToGenres(tags) ==
    IF tags = <<>> THEN UNKNOWN
    ELSE IF GenreTags(tags) = <<>> THEN Take(tags, 3)
    ELSE Take(GenreTags(tags), 3)

\* keyword in t, on strings.
IsSubstring(k, t) ==
    \E i \in 0..(Len(t) - Len(k)) : SubSeq(t, i + 1, i + Len(k)) = k

\* keyword in tag_set or any(keyword in t for t in tag_set)
KeywordMatches(keyword, tags) ==
    \E i \in 1..Len(tags) :
        tags[i] = keyword \/ IsSubstring(TagChars[keyword], TagChars[tags[i]])

\* Mutant of DescriptorMatches: a descriptor is emitted for every table row.
DescriptorAlwaysMatches(row, tags) == TRUE

\* The inner loop over one row's keywords: any keyword matches.
DescriptorMatches(row, tags) ==
    \E j \in 1..Len(row.keywords) : KeywordMatches(row.keywords[j], tags)

RECURSIVE TimbreFrom(_, _, _)
\* The loop over TIMBRE_MAP.items() from row i on; stops at 4 descriptors.
TimbreFrom(i, tags, descriptors) ==
    IF i > Len(TIMBRE_MAP) \/ Len(descriptors) >= 4 THEN descriptors
    ELSE TimbreFrom(i + 1, tags,
            IF DescriptorMatches(TIMBRE_MAP[i], tags)
            THEN Append(descriptors, TIMBRE_MAP[i].descriptor)
            ELSE descriptors)

\* classifier._tags_to_timbre
TagsToTimbre(tags) ==
    IF tags = <<>> THEN UNKNOWN
    ELSE IF TimbreFrom(1, tags, <<>>) = <<>> THEN <<"dynamic">>
    ELSE TimbreFrom(1, tags, <<>>)

RECURSIVE SortByCount(_)
\* tags.sort(key=count, reverse=True): a stable sort, highest count first.
SortByCount(tags) ==
    IF tags = <<>> THEN <<>>
    ELSE LET best == CHOOSE i \in 1..Len(tags) :
                        /\ \A j \in 1..Len(tags) : tags[j].count <= tags[i].count
                        /\ \A j \in 1..(i - 1) : tags[j].count < tags[i].count
             rest == [j \in 1..(Len(tags) - 1) |->
                        IF j < best THEN tags[j] ELSE tags[j + 1]]
         IN  <<tags[best]>> \o SortByCount(rest)

\* The tail of _get_artist_tags on a 200 response: the tag names with a
\* positive count, lowercased, most popular first.
TagNames(tags) ==
    LET kept == SelectSeq(SortByCount(tags), LAMBDA t : t.count > 0)
    IN  [i \in 1..Len(kept) |-> LowerTag(kept[i].name)]

UnknownPair == [genres |-> UNKNOWN, timbre |-> UNKNOWN]

\* The last lines of classify_artist, given the tags response.
ClassifyTags(tags) ==
    [genres |-> TagsToGenres(TagNames(tags)),
     timbre |-> TagsToTimbre(TagNames(tags))]

\* ------------------------------------------------- merge_artists, alone

\* What the metadata service answers to a tags request with status 200.
TagResponses ==
    { <<>>,
      <<[name |-> "techno", count |-> 1], [name |-> "House", count |-> 2],
        [name |-> "seen live", count |-> 0]>> }

\* The classifications classify_artist can return, and merge_artists' default.
ClassPairs ==
    {ClassifyTags(t) : t \in TagResponses} \cup {[genres |-> <<>>, timbre |-> <<>>]}

\* The lists of names a merge is called with: a page's, a poster's or the
\* service's spellings; "Abc" and " abc" share the key "abc".
MergeNameLists ==
    { <<>>, <<"Abc">>, <<" abc">>, <<"Xyz">>,
      <<"Abc", " abc">>, <<" abc", "Abc">>, <<"Abc", "Xyz">> }

\* A scraped page's festival, and an uploaded poster's: image uploads all
\* carry the empty url (app.upload_lineup).
FestivalInfos ==
    { [name |-> "Fest", url |-> "https://x.test"],
      [name |-> "Gala", url |-> ""] }

\* The elements of a list.
Range(seq) == {seq[i] : i \in 1..Len(seq)}

\* The mappings from some of the names to classifications.
ClassificationsFor(names) ==
    UNION {[D -> ClassPairs] : D \in SUBSET Range(names)}

NoCall ==
    [names |-> <<>>, classifications |-> <<>>,
     festival_info |-> [name |-> "", url |-> ""]]

InitMerge ==
    /\ store = EmptyData
    /\ storeBefore = EmptyData
    /\ call = NoCall
    /\ clock = 0

\* data = merge_artists(data, artist_names, classifications, festival_info)
MergeCall ==
    /\ clock < MaxClock
    /\ \E names \in MergeNameLists, festival_info \in FestivalInfos :
         \E classifications \in ClassificationsFor(names) :
            /\ store' = MergeArtists(store, names, classifications,
                                     festival_info, clock + 1)
            /\ call' = [names |-> names, classifications |-> classifications,
                        festival_info |-> festival_info]
    /\ storeBefore' = store
    /\ clock' = clock + 1

\* ------------------------------------------------------------ file system

\* The slots for units of work: two run in Spec, three in SpecThree.
Units == {1, 2, 3}

NoFile == [exists |-> FALSE, data |-> EmptyData, chunks |-> 0]

\* A file holds a whole JSON document once all its chunks are written.
IsComplete(f) == f.exists /\ f.chunks = DocChunks

\* json.load succeeds on the file, or there is no file.
Loadable(f) == ~f.exists \/ IsComplete(f)

\* storage.load_data, where json.load succeeds.
LoadData(f) == IF f.exists THEN f.data ELSE EmptyData

\* Mutant of TmpAfterError: the handler leaves the temporary file behind.
TmpLeftBehind(f) == f

\* except Exception: os.unlink(tmp_path)
TmpAfterError(f) == NoFile

\* Mutant of WritesToTmp: json.dump writes straight into DATA_FILE.
WritesToTarget == FALSE

\* tempfile.mkstemp(dir=..., suffix=".tmp"): the document is written to a
\* temporary file of its own, then moved over DATA_FILE by os.replace.
WritesToTmp == TRUE

\* ------------------------------------------------- the metadata service

\* What the service answers to _search_artist: a status and the artists of
\* the body; status 0 stands for no answer (a timeout, a connection error).
\* In the narrow scope (two concurrent units) the service answers 200, or 500
\* to a search; with three concurrent units it finds every artist and its tags.
SearchAnswers ==
    IF scope = "three" THEN { [status |-> 200, artists |-> <<[id |-> "mbid"]>>] } ELSE
    { [status |-> 200, artists |-> <<[id |-> "mbid"]>>],
      [status |-> 200, artists |-> <<>>],
      [status |-> 500, artists |-> <<>>] }
    \cup IF scope = "narrow" THEN {}
         ELSE { [status |-> 200, artists |-> <<[id |-> ""]>>],
                [status |-> 503, artists |-> <<>>],
                [status |-> 0, artists |-> <<>>] }

\* What the service answers to _get_artist_tags.
TagsAnswers ==
    IF scope = "three"
    THEN {[status |-> 200,
           tags |-> CHOOSE t \in TagResponses : HasRealGenres(ClassifyTags(t))]}
    ELSE
    {[status |-> 200, tags |-> t] : t \in TagResponses}
    \cup IF scope = "narrow" THEN {}
         ELSE { [status |-> 503, tags |-> <<>>],
                [status |-> 404, tags |-> <<>>],
                [status |-> 0, tags |-> <<>>] }

\* The candidates, with their scores, of a 200 answer to _validate_artist_musicbrainz.
ValidateResponses ==
    { <<>>, <<[name |-> "Abc", score |-> 100]>> }
    \cup IF scope = "narrow" THEN {}
         ELSE { <<[name |-> "Xyz", score |-> 100], [name |-> " abc", score |-> 85]>>,
                <<[name |-> "Abc", score |-> 70]>> }

\* What the service answers to _validate_artist_musicbrainz.
ValidateAnswers ==
    {[status |-> 200, artists |-> a] : a \in ValidateResponses}
    \cup IF scope = "narrow" THEN {}
         ELSE { [status |-> 503, artists |-> <<>>],
                [status |-> 404, artists |-> <<>>],
                [status |-> 0, artists |-> <<>>] }

\* ---------------------------------------------------------- ocr: validate

\* name.lower().strip()
LowerStrip(name) == Strip(Lower(NameChars[name]))

\* The position-wise mismatches of two strings, over the shorter one's length.
Mismatches(a, b) ==
    Cardinality({i \in 1..(IF Len(a) <= Len(b) THEN Len(a) ELSE Len(b)) : a[i] # b[i]})

\* abs(len(a) - len(b))
LenDiff(a, b) == IF Len(a) <= Len(b) THEN Len(b) - Len(a) ELSE Len(a) - Len(b)

\* Mutant of FuzzyMatch: any two names are close enough.
FuzzyAlways(a, b) == TRUE

\* ocr._fuzzy_match
FuzzyMatch(a, b) ==
    IF LenDiff(a, b) > 2 THEN FALSE
    ELSE LenDiff(a, b) + Mismatches(a, b) <= 2

\* One candidate of the service is accepted for the name.
Accepts(name, artist) ==
    \/ artist.score >= 90 /\ LowerStrip(artist.name) = LowerStrip(name)
    \/ /\ artist.score >= 80
       /\ \/ LowerStrip(artist.name) = LowerStrip(name)
          \/ FuzzyMatch(LowerStrip(name), LowerStrip(artist.name))

\* The loop of _validate_artist_musicbrainz over the candidates: the first
\* accepted candidate's name, or "" for None.
ValidateMatch(name, artists) ==
    IF \E i \in 1..Len(artists) : Accepts(name, artists[i])
    THEN artists[CHOOSE i \in 1..Len(artists) :
                    /\ Accepts(name, artists[i])
                    /\ \A j \in 1..(i - 1) : ~Accepts(name, artists[j])].name
    ELSE ""

\* ------------------------------------------------------ regular expressions

\* A regular expression is the tree Python's re module parses it into: "lit"
\* and "str" are literal characters, "in" a character class, "any" the dot,
\* "at" an anchor, "seq" a sequence, "alt" a branch, "rep" a repetition with
\* max -1 for no upper limit.  A text is its sequence of characters; "EN DASH"
\* and "COPYRIGHT SIGN" stand for these two characters.

\* app._clean_artist_names: r'\s*[Bb]2[Bb]\s*'
B2B_SPLIT ==
    [op |-> "seq", items |-> <<[op |-> "rep", min |-> 0, max |-> -1, item |-> [op |-> "in",
    chars |-> {}, cats |-> {"space"}, neg |-> FALSE]], [op |-> "in", chars |-> {"B", "b"},
    cats |-> {}, neg |-> FALSE], [op |-> "lit", c |-> "2"], [op |-> "in", chars |-> {"B", "b"},
    cats |-> {}, neg |-> FALSE], [op |-> "rep", min |-> 0, max |-> -1, item |-> [op |-> "in",
    chars |-> {}, cats |-> {"space"}, neg |-> FALSE]]>>]

\* app._clean_artist_names: r'\s*\([^)]*\)'
PAREN_TEXT ==
    [op |-> "seq", items |-> <<[op |-> "rep", min |-> 0, max |-> -1, item |-> [op |-> "in",
    chars |-> {}, cats |-> {"space"}, neg |-> FALSE]], [op |-> "lit", c |-> "("], [op |-> "rep",
    min |-> 0, max |-> -1, item |-> [op |-> "in", chars |-> {")"}, cats |-> {}, neg |-> TRUE]],
    [op |-> "lit", c |-> ")"]>>]

\* ocr._DATE_PATTERN, as the regular expression parser reads it; matched ignoring case.
DATE_PATTERN ==
    [op |-> "seq", items |-> <<[op |-> "at", where |-> "beginning"], [op |-> "alt",
    items |-> <<[op |-> "seq", items |-> <<[op |-> "rep", min |-> 1, max |-> 2,
    item |-> [op |-> "in", chars |-> {}, cats |-> {"digit"}, neg |-> FALSE]], [op |-> "in",
    chars |-> {"/", "-", "."}, cats |-> {}, neg |-> FALSE], [op |-> "rep", min |-> 1, max |-> 2,
    item |-> [op |-> "in", chars |-> {}, cats |-> {"digit"}, neg |-> FALSE]], [op |-> "rep",
    min |-> 0, max |-> 1, item |-> [op |-> "seq", items |-> <<[op |-> "in", chars |-> {"/", "-",
    "."}, cats |-> {}, neg |-> FALSE], [op |-> "rep", min |-> 2, max |-> 4, item |-> [op |-> "in",
    chars |-> {}, cats |-> {"digit"}, neg |-> FALSE]]>>]]>>], [op |-> "seq",
    items |-> <<[op |-> "rep", min |-> 1, max |-> 2, item |-> [op |-> "in", chars |-> {},
    cats |-> {"digit"}, neg |-> FALSE]], [op |-> "rep", min |-> 0, max |-> -1,
    item |-> [op |-> "in", chars |-> {}, cats |-> {"space"}, neg |-> FALSE]], [op |-> "rep",
    min |-> 0, max |-> 1, item |-> [op |-> "alt", items |-> <<[op |-> "str", cs |-> <<"s", "t">>],
    [op |-> "str", cs |-> <<"n", "d">>], [op |-> "str", cs |-> <<"r", "d">>], [op |-> "str",
    cs |-> <<"t", "h">>]>>]], [op |-> "rep", min |-> 0, max |-> -1, item |-> [op |-> "in",
    chars |-> {}, cats |-> {"space"}, neg |-> FALSE]], [op |-> "rep", min |-> 0, max |-> 1,
    item |-> [op |-> "seq", items |-> <<[op |-> "str", cs |-> <<"o", "f">>], [op |-> "rep",
    min |-> 1, max |-> -1, item |-> [op |-> "in", chars |-> {}, cats |-> {"space"},
    neg |-> FALSE]]>>]], [op |-> "alt", items |-> <<[op |-> "str", cs |-> <<"j", "a", "n">>],
    [op |-> "str", cs |-> <<"f", "e", "b">>], [op |-> "str", cs |-> <<"m", "a", "r">>],
    [op |-> "str", cs |-> <<"a", "p", "r">>], [op |-> "str", cs |-> <<"m", "a", "y">>],
    [op |-> "str", cs |-> <<"j", "u", "n">>], [op |-> "str", cs |-> <<"j", "u", "l">>],
    [op |-> "str", cs |-> <<"a", "u", "g">>], [op |-> "str", cs |-> <<"s", "e", "p">>],
    [op |-> "str", cs |-> <<"o", "c", "t">>], [op |-> "str", cs |-> <<"n", "o", "v">>],
    [op |-> "str", cs |-> <<"d", "e", "c">>]>>], [op |-> "rep", min |-> 0, max |-> -1,
    item |-> [op |-> "in", chars |-> {}, cats |-> {"word"}, neg |-> FALSE]]>>], [op |-> "seq",
    items |-> <<[op |-> "alt", items |-> <<[op |-> "str", cs |-> <<"j", "a", "n">>], [op |-> "str",
    cs |-> <<"f", "e", "b">>], [op |-> "str", cs |-> <<"m", "a", "r">>], [op |-> "str",
    cs |-> <<"a", "p", "r">>], [op |-> "str", cs |-> <<"m", "a", "y">>], [op |-> "str",
    cs |-> <<"j", "u", "n">>], [op |-> "str", cs |-> <<"j", "u", "l">>], [op |-> "str",
    cs |-> <<"a", "u", "g">>], [op |-> "str", cs |-> <<"s", "e", "p">>], [op |-> "str",
    cs |-> <<"o", "c", "t">>], [op |-> "str", cs |-> <<"n", "o", "v">>], [op |-> "str",
    cs |-> <<"d", "e", "c">>]>>], [op |-> "rep", min |-> 0, max |-> -1, item |-> [op |-> "in",
    chars |-> {}, cats |-> {"word"}, neg |-> FALSE]], [op |-> "rep", min |-> 1, max |-> -1,
    item |-> [op |-> "in", chars |-> {}, cats |-> {"space"}, neg |-> FALSE]], [op |-> "rep",
    min |-> 1, max |-> 2, item |-> [op |-> "in", chars |-> {}, cats |-> {"digit"}, neg |-> FALSE]],
    [op |-> "rep", min |-> 0, max |-> -1, item |-> [op |-> "in", chars |-> {}, cats |-> {"space"},
    neg |-> FALSE]], [op |-> "rep", min |-> 0, max |-> 1, item |-> [op |-> "alt",
    items |-> <<[op |-> "str", cs |-> <<"s", "t">>], [op |-> "str", cs |-> <<"n", "d">>],
    [op |-> "str", cs |-> <<"r", "d">>], [op |-> "str", cs |-> <<"t", "h">>]>>]], [op |-> "rep",
    min |-> 0, max |-> 1, item |-> [op |-> "seq", items |-> <<[op |-> "rep", min |-> 0, max |-> -1,
    item |-> [op |-> "in", chars |-> {}, cats |-> {"space"}, neg |-> FALSE]], [op |-> "in",
    chars |-> {"-", "EN DASH"}, cats |-> {}, neg |-> FALSE], [op |-> "rep", min |-> 0, max |-> -1,
    item |-> [op |-> "in", chars |-> {}, cats |-> {"space"}, neg |-> FALSE]], [op |-> "rep",
    min |-> 1, max |-> 2, item |-> [op |-> "in", chars |-> {}, cats |-> {"digit"}, neg |-> FALSE]],
    [op |-> "rep", min |-> 0, max |-> -1, item |-> [op |-> "in", chars |-> {}, cats |-> {"space"},
    neg |-> FALSE]], [op |-> "rep", min |-> 0, max |-> 1, item |-> [op |-> "alt",
    items |-> <<[op |-> "str", cs |-> <<"s", "t">>], [op |-> "str", cs |-> <<"n", "d">>],
    [op |-> "str", cs |-> <<"r", "d">>], [op |-> "str", cs |-> <<"t", "h">>]>>]]>>]]>>],
    [op |-> "seq", items |-> <<[op |-> "alt", items |-> <<[op |-> "str", cs |-> <<"m", "o", "n">>],
    [op |-> "str", cs |-> <<"t", "u", "e">>], [op |-> "str", cs |-> <<"w", "e", "d">>],
    [op |-> "str", cs |-> <<"t", "h", "u">>], [op |-> "str", cs |-> <<"f", "r", "i">>],
    [op |-> "str", cs |-> <<"s", "a", "t">>], [op |-> "str", cs |-> <<"s", "u", "n">>]>>],
    [op |-> "rep", min |-> 0, max |-> -1, item |-> [op |-> "in", chars |-> {}, cats |-> {"word"},
    neg |-> FALSE]], [op |-> "rep", min |-> 1, max |-> -1, item |-> [op |-> "in", chars |-> {},
    cats |-> {"space"}, neg |-> FALSE]], [op |-> "rep", min |-> 1, max |-> 2, item |-> [op |-> "in",
    chars |-> {}, cats |-> {"digit"}, neg |-> FALSE]]>>], [op |-> "seq", items |-> <<[op |-> "rep",
    min |-> 1, max |-> 2, item |-> [op |-> "in", chars |-> {}, cats |-> {"digit"}, neg |-> FALSE]],
    [op |-> "rep", min |-> 0, max |-> -1, item |-> [op |-> "in", chars |-> {}, cats |-> {"space"},
    neg |-> FALSE]], [op |-> "alt", items |-> <<[op |-> "str", cs |-> <<"s", "t">>], [op |-> "str",
    cs |-> <<"n", "d">>], [op |-> "str", cs |-> <<"r", "d">>], [op |-> "str", cs |-> <<"t",
    "h">>]>>], [op |-> "rep", min |-> 1, max |-> -1, item |-> [op |-> "in", chars |-> {},
    cats |-> {"space"}, neg |-> FALSE]], [op |-> "alt", items |-> <<[op |-> "str", cs |-> <<"m",
    "o", "n">>], [op |-> "str", cs |-> <<"t", "u", "e">>], [op |-> "str", cs |-> <<"w", "e", "d">>],
    [op |-> "str", cs |-> <<"t", "h", "u">>], [op |-> "str", cs |-> <<"f", "r", "i">>],
    [op |-> "str", cs |-> <<"s", "a", "t">>], [op |-> "str", cs |-> <<"s", "u", "n">>]>>],
    [op |-> "rep", min |-> 0, max |-> -1, item |-> [op |-> "in", chars |-> {}, cats |-> {"word"},
    neg |-> FALSE]]>>], [op |-> "seq", items |-> <<[op |-> "str", cs |-> <<"2", "0">>],
    [op |-> "rep", min |-> 2, max |-> 2, item |-> [op |-> "in", chars |-> {}, cats |-> {"digit"},
    neg |-> FALSE]]>>], [op |-> "seq", items |-> <<[op |-> "str", cs |-> <<"1", "9">>],
    [op |-> "rep", min |-> 2, max |-> 2, item |-> [op |-> "in", chars |-> {}, cats |-> {"digit"},
    neg |-> FALSE]]>>]>>], [op |-> "at", where |-> "end"]>>]

\* ocr._SENTENCE_CHARS
SENTENCE_CHARS ==
    [op |-> "in", chars |-> {".", "!", "?", ";"}, cats |-> {}, neg |-> FALSE]

\* ocr._MULTI_COMMA
MULTI_COMMA ==
    [op |-> "seq", items |-> <<[op |-> "lit", c |-> ","], [op |-> "rep", min |-> 0, max |-> -1,
    item |-> [op |-> "any"]], [op |-> "lit", c |-> ","]>>]

\* ocr._POSTER_NOISE, as the regular expression parser reads it; matched ignoring case.
POSTER_NOISE ==
    [op |-> "seq", items |-> <<[op |-> "at", where |-> "beginning"], [op |-> "alt",
    items |-> <<[op |-> "seq", items |-> <<[op |-> "str", cs |-> <<"p", "r", "e", "s", "e", "n",
    "t">>], [op |-> "rep", min |-> 0, max |-> 1, item |-> [op |-> "lit", c |-> "s"]]>>],
    [op |-> "str", cs |-> <<"f", "e", "a", "t", "u", "r", "i", "n", "g">>], [op |-> "seq",
    items |-> <<[op |-> "str", cs |-> <<"f", "e", "a", "t">>], [op |-> "rep", min |-> 0, max |-> 1,
    item |-> [op |-> "lit", c |-> "."]]>>], [op |-> "seq", items |-> <<[op |-> "str", cs |-> <<"f",
    "t">>], [op |-> "rep", min |-> 0, max |-> 1, item |-> [op |-> "lit", c |-> "."]]>>],
    [op |-> "str", cs |-> <<"w", "i", "t", "h">>], [op |-> "str", cs |-> <<"a", "n", "d", " ", "m",
    "o", "r", "e">>], [op |-> "seq", items |-> <<[op |-> "str", cs |-> <<"t", "i", "c", "k", "e",
    "t">>], [op |-> "rep", min |-> 0, max |-> 1, item |-> [op |-> "lit", c |-> "s"]]>>],
    [op |-> "seq", items |-> <<[op |-> "str", cs |-> <<"b", "u", "y">>], [op |-> "rep", min |-> 1,
    max |-> -1, item |-> [op |-> "in", chars |-> {}, cats |-> {"space"}, neg |-> FALSE]],
    [op |-> "str", cs |-> <<"n", "o", "w">>]>>], [op |-> "seq", items |-> <<[op |-> "str",
    cs |-> <<"o", "n">>], [op |-> "rep", min |-> 1, max |-> -1, item |-> [op |-> "in", chars |-> {},
    cats |-> {"space"}, neg |-> FALSE]], [op |-> "str", cs |-> <<"s", "a", "l", "e">>]>>],
    [op |-> "seq", items |-> <<[op |-> "str", cs |-> <<"s", "o", "l", "d">>], [op |-> "rep",
    min |-> 1, max |-> -1, item |-> [op |-> "in", chars |-> {}, cats |-> {"space"}, neg |-> FALSE]],
    [op |-> "str", cs |-> <<"o", "u", "t">>]>>], [op |-> "str", cs |-> <<"p", "r", "e", "s", "a",
    "l", "e">>], [op |-> "str", cs |-> <<"v", "i", "p">>], [op |-> "seq", items |-> <<[op |-> "str",
    cs |-> <<"g", "e", "n", "e", "r", "a", "l">>], [op |-> "rep", min |-> 1, max |-> -1,
    item |-> [op |-> "in", chars |-> {}, cats |-> {"space"}, neg |-> FALSE]], [op |-> "str",
    cs |-> <<"a", "d", "m", "i", "s", "s", "i", "o", "n">>]>>], [op |-> "seq",
    items |-> <<[op |-> "str", cs |-> <<"e", "a", "r", "l", "y">>], [op |-> "rep", min |-> 1,
    max |-> -1, item |-> [op |-> "in", chars |-> {}, cats |-> {"space"}, neg |-> FALSE]],
    [op |-> "str", cs |-> <<"b", "i", "r", "d">>]>>], [op |-> "seq", items |-> <<[op |-> "str",
    cs |-> <<"m", "a", "i", "n">>], [op |-> "rep", min |-> 1, max |-> -1, item |-> [op |-> "in",
    chars |-> {}, cats |-> {"space"}, neg |-> FALSE]], [op |-> "str", cs |-> <<"s", "t", "a", "g",
    "e">>]>>], [op |-> "seq", items |-> <<[op |-> "str", cs |-> <<"s", "t", "a", "g", "e">>],
    [op |-> "rep", min |-> 0, max |-> -1, item |-> [op |-> "in", chars |-> {}, cats |-> {"space"},
    neg |-> FALSE]], [op |-> "rep", min |-> 0, max |-> -1, item |-> [op |-> "in", chars |-> {},
    cats |-> {"digit"}, neg |-> FALSE]]>>], [op |-> "str", cs |-> <<"t", "e", "n", "t">>],
    [op |-> "str", cs |-> <<"a", "r", "e", "n", "a">>], [op |-> "seq", items |-> <<[op |-> "str",
    cs |-> <<"d", "a", "y">>], [op |-> "rep", min |-> 0, max |-> -1, item |-> [op |-> "in",
    chars |-> {}, cats |-> {"space"}, neg |-> FALSE]], [op |-> "rep", min |-> 1, max |-> -1,
    item |-> [op |-> "in", chars |-> {}, cats |-> {"digit"}, neg |-> FALSE]]>>], [op |-> "seq",
    items |-> <<[op |-> "str", cs |-> <<"d", "a", "y">>], [op |-> "rep", min |-> 1, max |-> -1,
    item |-> [op |-> "in", chars |-> {}, cats |-> {"space"}, neg |-> FALSE]], [op |-> "str",
    cs |-> <<"o", "n", "e">>]>>], [op |-> "seq", items |-> <<[op |-> "str", cs |-> <<"d", "a",
    "y">>], [op |-> "rep", min |-> 1, max |-> -1, item |-> [op |-> "in", chars |-> {},
    cats |-> {"space"}, neg |-> FALSE]], [op |-> "str", cs |-> <<"t", "w", "o">>]>>], [op |-> "seq",
    items |-> <<[op |-> "str", cs |-> <<"d", "a", "y">>], [op |-> "rep", min |-> 1, max |-> -1,
    item |-> [op |-> "in", chars |-> {}, cats |-> {"space"}, neg |-> FALSE]], [op |-> "str",
    cs |-> <<"t", "h", "r", "e", "e">>]>>], [op |-> "seq", items |-> <<[op |-> "str", cs |-> <<"d",
    "o", "o", "r">>], [op |-> "rep", min |-> 0, max |-> 1, item |-> [op |-> "lit", c |-> "s"]],
    [op |-> "rep", min |-> 1, max |-> -1, item |-> [op |-> "in", chars |-> {}, cats |-> {"space"},
    neg |-> FALSE]], [op |-> "str", cs |-> <<"o", "p", "e", "n">>]>>], [op |-> "seq",
    items |-> <<[op |-> "str", cs |-> <<"s", "e", "t">>], [op |-> "rep", min |-> 1, max |-> -1,
    item |-> [op |-> "in", chars |-> {}, cats |-> {"space"}, neg |-> FALSE]], [op |-> "str",
    cs |-> <<"t", "i", "m", "e">>], [op |-> "rep", min |-> 0, max |-> 1, item |-> [op |-> "lit",
    c |-> "s"]]>>], [op |-> "str", cs |-> <<"s", "c", "h", "e", "d", "u", "l", "e">>],
    [op |-> "seq", items |-> <<[op |-> "str", cs |-> <<"l", "i", "n", "e">>], [op |-> "rep",
    min |-> 0, max |-> -1, item |-> [op |-> "in", chars |-> {}, cats |-> {"space"}, neg |-> FALSE]],
    [op |-> "str", cs |-> <<"u", "p">>]>>], [op |-> "seq", items |-> <<[op |-> "str", cs |-> <<"s",
    "p", "o", "n", "s", "o", "r", "e", "d">>], [op |-> "rep", min |-> 1, max |-> -1,
    item |-> [op |-> "in", chars |-> {}, cats |-> {"space"}, neg |-> FALSE]], [op |-> "str",
    cs |-> <<"b", "y">>]>>], [op |-> "seq", items |-> <<[op |-> "str", cs |-> <<"p", "r", "e", "s",
    "e", "n", "t", "e", "d">>], [op |-> "rep", min |-> 1, max |-> -1, item |-> [op |-> "in",
    chars |-> {}, cats |-> {"space"}, neg |-> FALSE]], [op |-> "str", cs |-> <<"b", "y">>]>>],
    [op |-> "seq", items |-> <<[op |-> "str", cs |-> <<"p", "o", "w", "e", "r", "e", "d">>],
    [op |-> "rep", min |-> 1, max |-> -1, item |-> [op |-> "in", chars |-> {}, cats |-> {"space"},
    neg |-> FALSE]], [op |-> "str", cs |-> <<"b", "y">>]>>], [op |-> "seq",
    items |-> <<[op |-> "str", cs |-> <<"f", "o", "l", "l", "o", "w">>], [op |-> "rep", min |-> 1,
    max |-> -1, item |-> [op |-> "in", chars |-> {}, cats |-> {"space"}, neg |-> FALSE]],
    [op |-> "str", cs |-> <<"u", "s">>]>>], [op |-> "str", cs |-> <<"s", "h", "a", "r", "e">>],
    [op |-> "str", cs |-> <<"c", "o", "p", "y", "r", "i", "g", "h", "t">>], [op |-> "lit",
    c |-> "COPYRIGHT SIGN"], [op |-> "seq", items |-> <<[op |-> "str", cs |-> <<"a", "l", "l">>],
    [op |-> "rep", min |-> 1, max |-> -1, item |-> [op |-> "in", chars |-> {}, cats |-> {"space"},
    neg |-> FALSE]], [op |-> "str", cs |-> <<"r", "i", "g", "h", "t", "s">>]>>], [op |-> "str",
    cs |-> <<"t", "e", "r", "m", "s">>], [op |-> "str", cs |-> <<"p", "r", "i", "v", "a", "c",
    "y">>], [op |-> "str", cs |-> <<"c", "o", "o", "k", "i", "e">>], [op |-> "str", cs |-> <<"i",
    "n", "f", "o">>], [op |-> "str", cs |-> <<"w", "w", "w", ".">>], [op |-> "str", cs |-> <<".",
    "c", "o", "m">>], [op |-> "seq", items |-> <<[op |-> "str", cs |-> <<"s", "i", "g", "n">>],
    [op |-> "rep", min |-> 1, max |-> -1, item |-> [op |-> "in", chars |-> {}, cats |-> {"space"},
    neg |-> FALSE]], [op |-> "str", cs |-> <<"u", "p">>]>>], [op |-> "str", cs |-> <<"s", "u", "b",
    "s", "c", "r", "i", "b", "e">>], [op |-> "str", cs |-> <<"n", "e", "w", "s", "l", "e", "t", "t",
    "e", "r">>], [op |-> "str", cs |-> <<"r", "s", "v", "p">>], [op |-> "seq",
    items |-> <<[op |-> "str", cs |-> <<"m", "o", "r", "e">>], [op |-> "rep", min |-> 1, max |-> -1,
    item |-> [op |-> "in", chars |-> {}, cats |-> {"space"}, neg |-> FALSE]], [op |-> "alt",
    items |-> <<[op |-> "str", cs |-> <<"i", "n", "f", "o">>], [op |-> "seq",
    items |-> <<[op |-> "str", cs |-> <<"a", "r", "t", "i", "s", "t">>], [op |-> "rep", min |-> 0,
    max |-> 1, item |-> [op |-> "lit", c |-> "s"]]>>], [op |-> "seq", items |-> <<[op |-> "str",
    cs |-> <<"a", "c", "t">>], [op |-> "rep", min |-> 0, max |-> 1, item |-> [op |-> "lit",
    c |-> "s"]]>>], [op |-> "str", cs |-> <<"t", "b", "a">>], [op |-> "str", cs |-> <<"t", "b",
    "c">>]>>]>>], [op |-> "str", cs |-> <<"f", "r", "e", "e">>], [op |-> "seq",
    items |-> <<[op |-> "str", cs |-> <<"a", "g", "e">>], [op |-> "rep", min |-> 0, max |-> 1,
    item |-> [op |-> "lit", c |-> "s"]], [op |-> "rep", min |-> 1, max |-> -1,
    item |-> [op |-> "in", chars |-> {}, cats |-> {"space"}, neg |-> FALSE]], [op |-> "in",
    chars |-> {}, cats |-> {"digit"}, neg |-> FALSE]>>], [op |-> "seq", items |-> <<[op |-> "str",
    cs |-> <<"a", "l", "l">>], [op |-> "rep", min |-> 1, max |-> -1, item |-> [op |-> "in",
    chars |-> {}, cats |-> {"space"}, neg |-> FALSE]], [op |-> "str", cs |-> <<"a", "g", "e",
    "s">>]>>], [op |-> "str", cs |-> <<"1", "8", "+">>], [op |-> "str", cs |-> <<"2", "1", "+">>],
    [op |-> "str", cs |-> <<"p", "a", "r", "k", "i", "n", "g">>], [op |-> "str", cs |-> <<"c", "a",
    "m", "p", "i", "n", "g">>], [op |-> "str", cs |-> <<"l", "o", "d", "g", "i", "n", "g">>],
    [op |-> "str", cs |-> <<"d", "i", "r", "e", "c", "t", "i", "o", "n", "s">>], [op |-> "str",
    cs |-> <<"m", "a", "p">>], [op |-> "str", cs |-> <<"f", "o", "o", "d">>], [op |-> "str",
    cs |-> <<"d", "r", "i", "n", "k">>], [op |-> "str", cs |-> <<"m", "e", "r", "c", "h">>],
    [op |-> "str", cs |-> <<"v", "e", "n", "d", "o", "r">>], [op |-> "seq",
    items |-> <<[op |-> "str", cs |-> <<"f", "e", "s", "t">>], [op |-> "rep", min |-> 0, max |-> 1,
    item |-> [op |-> "str", cs |-> <<"i", "v", "a", "l">>]], [op |-> "rep", min |-> 0, max |-> 1,
    item |-> [op |-> "seq", items |-> <<[op |-> "rep", min |-> 1, max |-> -1, item |-> [op |-> "in",
    chars |-> {}, cats |-> {"space"}, neg |-> FALSE]], [op |-> "rep", min |-> 4, max |-> 4,
    item |-> [op |-> "in", chars |-> {}, cats |-> {"digit"}, neg |-> FALSE]]>>]]>>], [op |-> "seq",
    items |-> <<[op |-> "str", cs |-> <<"m", "u", "s", "i", "c">>], [op |-> "rep", min |-> 1,
    max |-> -1, item |-> [op |-> "in", chars |-> {}, cats |-> {"space"}, neg |-> FALSE]],
    [op |-> "str", cs |-> <<"f", "e", "s", "t", "i", "v", "a", "l">>]>>], [op |-> "seq",
    items |-> <<[op |-> "str", cs |-> <<"p", "h", "a", "s", "e">>], [op |-> "rep", min |-> 1,
    max |-> -1, item |-> [op |-> "in", chars |-> {}, cats |-> {"space"}, neg |-> FALSE]],
    [op |-> "in", chars |-> {}, cats |-> {"digit"}, neg |-> FALSE]>>], [op |-> "str", cs |-> <<"a",
    "n", "n", "o", "u", "n", "c", "e", "m", "e", "n", "t">>], [op |-> "str", cs |-> <<"r", "e", "v",
    "e", "a", "l">>], [op |-> "seq", items |-> <<[op |-> "rep", min |-> 1, max |-> -1,
    item |-> [op |-> "in", chars |-> {"a", "b", "c", "d", "e", "f", "g", "h", "i", "j", "k", "l",
    "m", "n", "o", "p", "q", "r", "s", "t", "u", "v", "w", "x", "y", "z"}, cats |-> {},
    neg |-> FALSE]], [op |-> "lit", c |-> "."], [op |-> "alt", items |-> <<[op |-> "str",
    cs |-> <<"c", "o", "m">>], [op |-> "str", cs |-> <<"o", "r", "g">>], [op |-> "str",
    cs |-> <<"n", "e", "t">>], [op |-> "str", cs |-> <<"c", "o">>], [op |-> "str", cs |-> <<"i",
    "o">>], [op |-> "str", cs |-> <<"u", "k">>]>>]>>], [op |-> "seq", items |-> <<[op |-> "lit",
    c |-> "#"], [op |-> "rep", min |-> 1, max |-> -1, item |-> [op |-> "in", chars |-> {},
    cats |-> {"word"}, neg |-> FALSE]]>>]>>], [op |-> "at", where |-> "end"]>>]

\* The sample texts and their characters.
TextChars ==
    [s \in {"June 14", "VIP", "Main Stage 2", "Fred again..", "Main Stage", "Stage 2", "Daft Punk",
        "2025", "a, b, c", "12:30", "A", "", "Day 1", "Fri 21", "14th June", "1234a", "a b c d e f g",
        "#tag", "x.com", " VIP ", "Artist A b2b Artist B (Sunrise Set)", "artist a", "Artist A",
        "Artist B", "(Live)", "A B2B b", "Xb2bY (x) (y)", " b2b ", "b", "X", "Y", "Fred again"} |->
        CASE s = "June 14" -> <<"J", "u", "n", "e", " ", "1", "4">>
          [] s = "VIP" -> <<"V", "I", "P">>
          [] s = "Main Stage 2" -> <<"M", "a", "i", "n", " ", "S", "t", "a", "g", "e", " ", "2">>
          [] s = "Fred again.." -> <<"F", "r", "e", "d", " ", "a", "g", "a", "i", "n", ".", ".">>
          [] s = "Main Stage" -> <<"M", "a", "i", "n", " ", "S", "t", "a", "g", "e">>
          [] s = "Stage 2" -> <<"S", "t", "a", "g", "e", " ", "2">>
          [] s = "Daft Punk" -> <<"D", "a", "f", "t", " ", "P", "u", "n", "k">>
          [] s = "2025" -> <<"2", "0", "2", "5">>
          [] s = "a, b, c" -> <<"a", ",", " ", "b", ",", " ", "c">>
          [] s = "12:30" -> <<"1", "2", ":", "3", "0">>
          [] s = "A" -> <<"A">>
          [] s = "" -> <<>>
          [] s = "Day 1" -> <<"D", "a", "y", " ", "1">>
          [] s = "Fri 21" -> <<"F", "r", "i", " ", "2", "1">>
          [] s = "14th June" -> <<"1", "4", "t", "h", " ", "J", "u", "n", "e">>
          [] s = "1234a" -> <<"1", "2", "3", "4", "a">>
          [] s = "a b c d e f g" -> <<"a", " ", "b", " ", "c", " ", "d", " ", "e", " ", "f", " ", "g">>
          [] s = "#tag" -> <<"#", "t", "a", "g">>
          [] s = "x.com" -> <<"x", ".", "c", "o", "m">>
          [] s = " VIP " -> <<" ", "V", "I", "P", " ">>
          [] s = "Artist A b2b Artist B (Sunrise Set)" -> <<"A", "r", "t", "i", "s", "t", " ", "A", " ", "b", "2", "b", " ", "A", "r", "t", "i", "s", "t", " ", "B", " ", "(", "S", "u", "n", "r", "i", "s", "e", " ", "S", "e", "t", ")">>
          [] s = "artist a" -> <<"a", "r", "t", "i", "s", "t", " ", "a">>
          [] s = "Artist A" -> <<"A", "r", "t", "i", "s", "t", " ", "A">>
          [] s = "Artist B" -> <<"A", "r", "t", "i", "s", "t", " ", "B">>
          [] s = "(Live)" -> <<"(", "L", "i", "v", "e", ")">>
          [] s = "A B2B b" -> <<"A", " ", "B", "2", "B", " ", "b">>
          [] s = "Xb2bY (x) (y)" -> <<"X", "b", "2", "b", "Y", " ", "(", "x", ")", " ", "(", "y", ")">>
          [] s = " b2b " -> <<" ", "b", "2", "b", " ">>
          [] s = "b" -> <<"b">>
          [] s = "X" -> <<"X">>
          [] s = "Y" -> <<"Y">>
          [] s = "Fred again" -> <<"F", "r", "e", "d", " ", "a", "g", "a", "i", "n">>]

\* str.isalpha() on one character.
IsAlpha(c) ==
    \/ \E i \in 1..Len(LowerCase) : LowerCase[i] = c
    \/ \E i \in 1..Len(UpperCase) : UpperCase[i] = c

\* \d, \s and \w
InCategory(c, cat) ==
    CASE cat = "digit" -> IsDigit(c)
      [] cat = "space" -> IsSpace(c)
      [] cat = "word"  -> IsAlpha(c) \/ IsDigit(c) \/ c = "_"

\* re.IGNORECASE compares the characters in lower case.
Fold(c, ic) == IF ic THEN LowerChar(c) ELSE c

\* The character is one of the class's characters or in one of its categories.
InClass(c, r, ic) ==
    \/ \E x \in r.chars : Fold(x, ic) = Fold(c, ic)
    \/ \E cat \in r.cats : InCategory(c, cat)

RECURSIVE Ends(_, _, _, _)
RECURSIVE SeqEnds(_, _, _, _, _)
RECURSIVE RepEnds(_, _, _, _, _)

\* The positions at which a match of r that starts at position i of s can end
\* (the position after its last character); ic is re.IGNORECASE.
Ends(r, s, i, ic) ==
    CASE r.op = "lit" ->
            IF i <= Len(s) /\ Fold(s[i], ic) = Fold(r.c, ic) THEN {i + 1} ELSE {}
      [] r.op = "str" ->
            IF /\ i + Len(r.cs) - 1 <= Len(s)
               /\ \A k \in 1..Len(r.cs) : Fold(s[i + k - 1], ic) = Fold(r.cs[k], ic)
            THEN {i + Len(r.cs)} ELSE {}
      [] r.op = "in" ->
            IF i <= Len(s) /\ (InClass(s[i], r, ic) # r.neg) THEN {i + 1} ELSE {}
      [] r.op = "any" -> IF i <= Len(s) THEN {i + 1} ELSE {}
      [] r.op = "at" ->
            IF \/ r.where = "beginning" /\ i = 1
               \/ r.where = "end" /\ i = Len(s) + 1
            THEN {i} ELSE {}
      [] r.op = "seq" -> SeqEnds(r.items, 1, s, {i}, ic)
      [] r.op = "alt" -> UNION {Ends(r.items[k], s, i, ic) : k \in 1..Len(r.items)}
      [] r.op = "rep" -> RepEnds(r, s, {i}, 0, ic)

\* The ends of items[k], items[k+1], ... matched one after the other from any
\* of the positions from.
SeqEnds(items, k, s, from, ic) ==
    IF k > Len(items) THEN from
    ELSE SeqEnds(items, k + 1, s,
                 UNION {Ends(items[k], s, i, ic) : i \in from}, ic)

\* The ends of min to max repetitions of r.item; from are the ends of n of them.
RepEnds(r, s, from, n, ic) ==
    LET here == IF n >= r.min THEN from ELSE {}
    IN  IF from = {} \/ n = r.max THEN here
        ELSE here \cup RepEnds(r, s, UNION {Ends(r.item, s, i, ic) : i \in from},
                               n + 1, ic)

\* pattern.match(text)
ReMatch(r, s, ic) == Ends(r, s, 1, ic) # {}

\* pattern.search(text)
ReSearch(r, s, ic) == \E i \in 1..(Len(s) + 1) : Ends(r, s, i, ic) # {}

\* The leftmost match of r in s from position from on, as <<start, end>>, or
\* <<>>; the patterns split on are greedy to their longest match.
LeftmostMatch(r, s, from) ==
    LET starts == {i \in from..(Len(s) + 1) : Ends(r, s, i, FALSE) # {}}
    IN  IF starts = {} THEN <<>>
        ELSE LET i == CHOOSE x \in starts : \A y \in starts : x <= y
                 ends == Ends(r, s, i, FALSE)
             IN  <<i, CHOOSE x \in ends : \A y \in ends : x >= y>>

RECURSIVE ReSplit(_, _, _)
\* re.split(r, s), from position from on (r matches no empty text).
ReSplit(r, s, from) ==
    LET m == LeftmostMatch(r, s, from)
    IN  IF m = <<>> THEN <<SubSeq(s, from, Len(s))>>
        ELSE <<SubSeq(s, from, m[1] - 1)>> \o ReSplit(r, s, m[2])

RECURSIVE Join(_)
\* "".join(parts)
Join(parts) == IF parts = <<>> THEN <<>> ELSE Head(parts) \o Join(Tail(parts))

\* re.sub(r, '', s)
ReRemove(r, s) == Join(ReSplit(r, s, 1))

\* --------------------------------------------------- app: the name cleaner

\* Mutant of DedupKey: the names are compared as they are.
DedupKeyExact(name) == name

\* key = name.lower()
DedupKey(name) == Lower(name)

RECURSIVE CleanParts(_)
\* The inner loop of _clean_artist_names over the parts of one name.
CleanParts(parts) ==
    IF parts = <<>> THEN <<>>
    ELSE LET part == Strip(ReRemove(PAREN_TEXT, Head(parts)))
         IN  (IF part # <<>> THEN <<part>> ELSE <<>>) \o CleanParts(Tail(parts))

RECURSIVE CleanAll(_)
\* The outer loop of _clean_artist_names: cleaned.
CleanAll(names) ==
    IF names = <<>> THEN <<>>
    ELSE CleanParts(ReSplit(B2B_SPLIT, Head(names), 1)) \o CleanAll(Tail(names))

RECURSIVE Dedup(_, _)
\* The second loop of _clean_artist_names: result, given the keys seen.
Dedup(cleaned, seen) ==
    IF cleaned = <<>> THEN <<>>
    ELSE IF DedupKey(Head(cleaned)) \in seen
    THEN Dedup(Tail(cleaned), seen)
    ELSE <<Head(cleaned)>> \o Dedup(Tail(cleaned), seen \cup {DedupKey(Head(cleaned))})

\* app._clean_artist_names
CleanArtistNames(names) == Dedup(CleanAll(names), {})

\* ------------------------------------------------------------- the workers

\* The characters of a name as a page gives it.
RawChars(s) == IF s \in DOMAIN NameChars THEN NameChars[s] ELSE TextChars[s]

\* What extract_artists finds on a page: names, one name that is nothing but
\* a note in parentheses, or nothing.
AllWebPages == { <<"Abc">>, <<"Abc", "Xyz">>, <<>>, <<"(Live)">>, <<"Xyz">> }

\* In the narrow scope (two concurrent units) every page has names.
WebPages ==
    IF scope = "three" THEN { <<"Abc">>, <<"Xyz">> } ELSE
    { <<"Abc">>, <<"Abc", "Xyz">> }
    \cup IF scope = "narrow" THEN {} ELSE { <<>>, <<"(Live)">>, <<"Xyz">> }

\* scrape() line 89: artist_names = _clean_artist_names(artist_names), for
\* every page.
CleanedPages ==
    [page \in AllWebPages |->
        LET cleaned == CleanArtistNames([i \in 1..Len(page) |-> RawChars(page[i])])
        IN  [i \in 1..Len(cleaned) |-> FromChars(cleaned[i])]]

\* _run_ocr_and_classify: what extract_artists_from_image does: it raises, or
\* returns the candidates read from the poster (cleaned, distinct).
ScanOutcomes ==
    { [ok |-> TRUE, candidates |-> <<"Abd">>],
      [ok |-> TRUE, candidates |-> <<>>],
      [ok |-> FALSE, candidates |-> <<>>] }
    \cup IF scope = "narrow" THEN {}
         ELSE { [ok |-> TRUE, candidates |-> <<"Abc", "Abd">>] }

WebFestivals == { [name |-> "Fest", url |-> "https://x.test"] }

\* upload_lineup: festival_info = {"name": festival_name, "url": ""}
ImageFestivals ==
    { [name |-> "Fest", url |-> ""], [name |-> "Gala", url |-> ""] }

NoJob ==
    [status |-> "none", phase |-> "", total |-> 0, done |-> 0,
     current_artist |-> "", artist_count |-> 0, error |-> ""]

\* Mutant of AlreadyClassified: a stored name is skipped whatever its genres.
AnyStoredName(d, name) == NormalizeName(name) \in DOMAIN d.artists

\* The name is in the store with real genres: classify_batch lines 143-147,
\* _run_ocr_and_classify lines 152-157.
AlreadyClassified(d, name) ==
    /\ NormalizeName(name) \in DOMAIN d.artists
    /\ HasRealGenres(d.artists[NormalizeName(name)])

\* Mutant of StatusOnException: the worker's handler leaves the job running.
StatusLeftRunning == "running"

\* Mutant of StatusOnException: the worker's handler reports the job done.
StatusDoneAnyway == "done"

\* except Exception as e: job["status"] = "error"
StatusOnException == "error"

\* Mutant of BatchCatches: classify_batch lets the exception through.
BatchPropagates == FALSE

\* classify_batch: try: classify_artist(name) ... except Exception: unknown pair
BatchCatches == TRUE

\* The recursive retry has used up the interpreter's recursion limit: the
\* n-th nested call was answered 503 and one more call raises RecursionError.
RecursionExhausted(n) == n >= RecursionLimit

\* artist_names of the worker's merge: the names (web), validated_names (image).
MergeInput(u) == IF kind[u] = "web" THEN unitNames[u] ELSE validated[u]

unitVars ==
    <<pc, kind, job, unitNames, fest, unitData, cls, validated, idx, cur, attempts,
      raised, progress, sent>>

fsVars == <<file, tmp>>

mergeVars == <<store, storeBefore, call>>

fnVars == <<fn, arg, res>>

\* The worker's except clause: the job ends in error.
Abort(u, message) ==
    /\ pc' = [pc EXCEPT ![u] = "end"]
    /\ job' = [job EXCEPT ![u] = [@ EXCEPT !.status = StatusOnException,
                                           !.error = message]]

\* An explicit job["status"] = "error"; return of _run_ocr_and_classify.
GiveUp(u, message) ==
    /\ pc' = [pc EXCEPT ![u] = "end"]
    /\ job' = [job EXCEPT ![u] = [@ EXCEPT !.status = "error", !.error = message]]

\* scrape(): the names are extracted; with no name the request ends with the
\* message "No artists found on that page." and no job; otherwise the names
\* are cleaned, the job and its thread created.
\* (Units are interchangeable: the lower-numbered slot is taken first.)
StartWeb(u) ==
    /\ ~crashed
    /\ pc[u] = "idle"
    /\ \A v \in Units : v < u => pc[v] # "idle"
    /\ \E page \in WebPages, f \in WebFestivals :
          IF page = <<>>
          THEN /\ pc' = [pc EXCEPT ![u] = "end"]
               /\ UNCHANGED <<unitNames, fest, job, kind>>
          ELSE /\ unitNames' = [unitNames EXCEPT ![u] = CleanedPages[page]]
               /\ fest' = [fest EXCEPT ![u] = f]
               /\ job' = [job EXCEPT ![u] =
                             [status |-> "running", phase |-> "classifying",
                              total |-> Len(CleanedPages[page]), done |-> 0,
                              current_artist |-> "",
                              artist_count |-> Len(CleanedPages[page]), error |-> ""]]
               /\ pc' = [pc EXCEPT ![u] = "load"]
               /\ kind' = [kind EXCEPT ![u] = "web"]
    /\ UNCHANGED <<unitData, cls, validated, idx, cur, attempts, raised,
                   progress, sent, fsVars, mergeVars, fnVars, clock, crashed, scope>>

\* upload_lineup(): the job and its thread are created.
StartImage(u) ==
    /\ ~crashed
    /\ pc[u] = "idle"
    /\ \A v \in Units : v < u => pc[v] # "idle"
    /\ \E f \in ImageFestivals : fest' = [fest EXCEPT ![u] = f]
    /\ job' = [job EXCEPT ![u] =
                  [status |-> "running", phase |-> "scanning", total |-> 0,
                   done |-> 0, current_artist |-> "", artist_count |-> 0,
                   error |-> ""]]
    /\ pc' = [pc EXCEPT ![u] = "scan"]
    /\ kind' = [kind EXCEPT ![u] = "image"]
    /\ UNCHANGED <<unitNames, unitData, cls, validated, idx, cur, attempts, raised,
                   progress, sent, fsVars, mergeVars, fnVars, clock, crashed, scope>>

\* _run_classification line 45: data = load_data(), outside the try: an
\* exception here ends the thread and leaves the job as it is.
Load(u) ==
    /\ ~crashed
    /\ pc[u] = "load"
    /\ IF Loadable(file)
       THEN /\ unitData' = [unitData EXCEPT ![u] = LoadData(file)]
            /\ pc' = [pc EXCEPT ![u] = "batch"]
       ELSE /\ pc' = [pc EXCEPT ![u] = "end"]
            /\ UNCHANGED unitData
    /\ UNCHANGED <<kind, job, unitNames, fest, cls, validated, idx, cur, attempts,
                   raised, progress, sent, fsVars, mergeVars, fnVars, clock, crashed, scope>>

\* on_progress(artist_name, done_count, total_count) of _run_classification
OnProgress(j, artist_name, done_count, total_count) ==
    [j EXCEPT !.current_artist = artist_name, !.done = done_count,
              !.total = total_count]

\* Mutant of DoneCount: the names are counted from 0.
DoneCountFromZero(i) == i - 1

\* for i, name in enumerate(names, 1): the count passed to on_progress for the
\* i-th name.
DoneCount(i) == i

\* classify_batch's call on_progress(name, i, total): the job is updated and
\* the call recorded.
CallOnProgress(u, name) ==
    /\ job' = [job EXCEPT ![u] =
                  OnProgress(@, name, DoneCount(idx[u]), Len(unitNames[u]))]
    /\ progress' = [progress EXCEPT ![u] =
                       Append(@, [name |-> name, done |-> DoneCount(idx[u]),
                                  total |-> Len(unitNames[u])])]

\* classify_batch: the head of the loop, and the skip of a classified name.
BatchNext(u) ==
    /\ ~crashed
    /\ pc[u] = "batch"
    /\ IF idx[u] > Len(unitNames[u])
       THEN /\ pc' = [pc EXCEPT ![u] = "reload"]
            /\ UNCHANGED <<job, idx, cur, attempts, progress>>
       ELSE IF AlreadyClassified(unitData[u], unitNames[u][idx[u]])
       THEN /\ CallOnProgress(u, unitNames[u][idx[u]])
            /\ idx' = [idx EXCEPT ![u] = @ + 1]
            /\ UNCHANGED <<pc, cur, attempts>>
       ELSE /\ pc' = [pc EXCEPT ![u] = "search"]
            /\ cur' = [cur EXCEPT ![u] = unitNames[u][idx[u]]]
            /\ attempts' = [attempts EXCEPT ![u] = 0]
            /\ UNCHANGED <<job, idx, progress>>
    /\ UNCHANGED <<kind, unitNames, fest, unitData, cls, validated, raised, sent,
                   fsVars, mergeVars, fnVars, clock, crashed, scope>>

\* classify_artist is over for cur[u] with this classification.
\* Web: classify_batch lines 153-160.  Image: app.py lines 175-183.
NameDone(u, result) ==
    /\ cls' = [cls EXCEPT ![u] = (cur[u] :> result) @@ @]
    /\ idx' = [idx EXCEPT ![u] = @ + 1]
    /\ IF kind[u] = "web"
       THEN /\ CallOnProgress(u, cur[u])
            /\ pc' = [pc EXCEPT ![u] = "batch"]
       ELSE /\ job' = [job EXCEPT ![u] =
                          [@ EXCEPT !.current_artist = cur[u], !.done = idx[u],
                                    !.artist_count = Len(validated[u])]]
            /\ pc' = [pc EXCEPT ![u] = "imgloop"]
            /\ UNCHANGED progress

\* classify_artist raised: the caller's except clause stores the unknown pair.
NameRaised(u) ==
    /\ raised' = [raised EXCEPT ![u] = IF kind[u] = "web" THEN @ \cup {cur[u]} ELSE @]
    /\ IF kind[u] = "web" /\ ~BatchCatches
       THEN Abort(u, "classify") /\ UNCHANGED <<cls, idx, progress>>
       ELSE NameDone(u, UnknownPair)

\* One more request is sent: requests.get in _search_artist ("search") or in
\* _get_artist_tags ("tags"); it is a repeat when it follows a 503 answer, and
\* found counts the search answers that carry an artist.
Send(u, what, r) ==
    sent' = [sent EXCEPT
                ![u][what] = @ + 1,
                ![u].repeats[what] = @ + (IF attempts[u] > 0 THEN 1 ELSE 0),
                ![u].found = @ + (IF what = "search" /\ r.status = 200
                                       /\ r.artists # <<>>
                                  THEN 1 ELSE 0)]

\* Mutant of SearchFound: classify_artist asks for the tags in every case.
SearchAlwaysFound(r) == TRUE

\* classify_artist lines 117-122: _search_artist returned an artist, and the
\* artist has an id.
SearchFound(r) == r.artists # <<>> /\ r.artists[1].id # ""

\* classifier._search_artist: one request and what follows its answer.
Search(u) ==
    /\ ~crashed
    /\ pc[u] = "search"
    /\ \E r \in SearchAnswers :
        /\ Send(u, "search", r)
        /\ IF r.status = 503
            THEN IF RecursionExhausted(attempts[u] + 1)
                 THEN NameRaised(u) /\ UNCHANGED attempts
                 ELSE /\ attempts' = [attempts EXCEPT ![u] = @ + 1]
                      /\ UNCHANGED <<pc, job, cls, idx, raised, progress>>
            ELSE IF r.status # 200
            THEN NameRaised(u) /\ UNCHANGED attempts
            ELSE IF ~SearchFound(r)
            THEN NameDone(u, UnknownPair) /\ UNCHANGED <<attempts, raised>>
            ELSE /\ pc' = [pc EXCEPT ![u] = "tags"]
                 /\ attempts' = [attempts EXCEPT ![u] = 0]
                 /\ UNCHANGED <<job, cls, idx, raised, progress>>
    /\ UNCHANGED <<kind, unitNames, fest, unitData, validated, cur,
                   fsVars, mergeVars, fnVars, clock, crashed, scope>>

\* classifier._get_artist_tags, then the last lines of classify_artist.
Tags(u) ==
    /\ ~crashed
    /\ pc[u] = "tags"
    /\ \E r \in TagsAnswers :
        /\ Send(u, "tags", r)
        /\ IF r.status = 503
            THEN IF RecursionExhausted(attempts[u] + 1)
                 THEN NameRaised(u) /\ UNCHANGED attempts
                 ELSE /\ attempts' = [attempts EXCEPT ![u] = @ + 1]
                      /\ UNCHANGED <<pc, job, cls, idx, raised, progress>>
            ELSE IF r.status = 0
            THEN NameRaised(u) /\ UNCHANGED attempts
            ELSE IF r.status # 200
            THEN NameDone(u, ClassifyTags(<<>>)) /\ UNCHANGED <<attempts, raised>>
            ELSE NameDone(u, ClassifyTags(r.tags)) /\ UNCHANGED <<attempts, raised>>
    /\ UNCHANGED <<kind, unitNames, fest, unitData, validated, cur,
                   fsVars, mergeVars, fnVars, clock, crashed, scope>>

\* _run_ocr_and_classify lines 123-147: the OCR scan, then data = load_data().
Scan(u) ==
    /\ ~crashed
    /\ pc[u] = "scan"
    /\ \E r \in ScanOutcomes :
          IF ~r.ok \/ ~Loadable(file)
          THEN Abort(u, "exception") /\ UNCHANGED <<unitNames, unitData>>
          ELSE IF r.candidates = <<>>
          THEN /\ GiveUp(u, "No artist names found in the image.")
               /\ UNCHANGED <<unitNames, unitData>>
          ELSE /\ unitNames' = [unitNames EXCEPT ![u] = r.candidates]
               /\ unitData' = [unitData EXCEPT ![u] = LoadData(file)]
               /\ job' = [job EXCEPT ![u] =
                             [@ EXCEPT !.phase = "classifying",
                                       !.total = Len(r.candidates), !.done = 0]]
               /\ pc' = [pc EXCEPT ![u] = "imgloop"]
    /\ UNCHANGED <<kind, fest, cls, validated, idx, cur, attempts, raised,
                   progress, sent, fsVars, mergeVars, fnVars, clock, crashed, scope>>

\* _run_ocr_and_classify lines 151-163 and 185-188: the head of the loop, the
\* name already classified in the store, and the end of the loop.
ImgNext(u) ==
    /\ ~crashed
    /\ pc[u] = "imgloop"
    /\ IF idx[u] > Len(unitNames[u])
       THEN /\ IF validated[u] = <<>>
               THEN GiveUp(u, "No recognized artists found in the image.")
               ELSE pc' = [pc EXCEPT ![u] = "reload"] /\ UNCHANGED job
            /\ UNCHANGED <<validated, idx, attempts>>
       ELSE IF AlreadyClassified(unitData[u], unitNames[u][idx[u]])
       THEN LET existing == unitData[u].artists[NormalizeName(unitNames[u][idx[u]])]
            IN  /\ validated' = [validated EXCEPT ![u] = Append(@, existing.name)]
                /\ job' = [job EXCEPT ![u] =
                              [@ EXCEPT !.current_artist = existing.name,
                                        !.done = idx[u],
                                        !.artist_count = Len(validated[u]) + 1]]
                /\ idx' = [idx EXCEPT ![u] = @ + 1]
                /\ UNCHANGED <<pc, attempts>>
       ELSE /\ pc' = [pc EXCEPT ![u] = "validate"]
            /\ attempts' = [attempts EXCEPT ![u] = 0]
            /\ UNCHANGED <<job, validated, idx>>
    /\ UNCHANGED <<kind, unitNames, fest, unitData, cls, cur, raised, progress, sent,
                   fsVars, mergeVars, fnVars, clock, crashed, scope>>

\* ocr._validate_artist_musicbrainz: one request and what follows its answer;
\* attempts[u] is _retries before the request.
Validate(u) ==
    /\ ~crashed
    /\ pc[u] = "validate"
    /\ \E r \in ValidateAnswers :
          LET corrected ==
                  IF r.status = 200
                  THEN ValidateMatch(unitNames[u][idx[u]], r.artists)
                  ELSE ""
          IN  IF r.status = 503 /\ attempts[u] < 3
              THEN /\ attempts' = [attempts EXCEPT ![u] = @ + 1]
                   /\ UNCHANGED <<pc, job, validated, idx, cur>>
              ELSE IF corrected = ""
              THEN /\ job' = [job EXCEPT ![u] = [@ EXCEPT !.done = idx[u]]]
                   /\ idx' = [idx EXCEPT ![u] = @ + 1]
                   /\ pc' = [pc EXCEPT ![u] = "imgloop"]
                   /\ UNCHANGED <<validated, cur, attempts>>
              ELSE /\ validated' = [validated EXCEPT ![u] = Append(@, corrected)]
                   /\ cur' = [cur EXCEPT ![u] = corrected]
                   /\ attempts' = [attempts EXCEPT ![u] = 0]
                   /\ pc' = [pc EXCEPT ![u] = "search"]
                   /\ UNCHANGED <<job, idx>>
    /\ UNCHANGED <<kind, unitNames, fest, unitData, cls, raised, progress, sent,
                   fsVars, mergeVars, fnVars, clock, crashed, scope>>

\* Mutant of ReloadedData: the worker merges into the snapshot it already has.
StaleData(u) == unitData[u]

\* The snapshot the worker's second load_data() returns.
ReloadedData(u) == LoadData(file)

\* data = load_data()  # reload in case of concurrent changes
Reload(u) ==
    /\ ~crashed
    /\ pc[u] = "reload"
    /\ IF Loadable(file)
       THEN /\ unitData' = [unitData EXCEPT ![u] = ReloadedData(u)]
            /\ pc' = [pc EXCEPT ![u] = "merge"]
            /\ UNCHANGED job
       ELSE Abort(u, "exception") /\ UNCHANGED unitData
    /\ UNCHANGED <<kind, unitNames, fest, cls, validated, idx, cur, attempts, raised,
                   progress, sent, fsVars, mergeVars, fnVars, clock, crashed, scope>>

\* data = merge_artists(data, artist_names, classifications, festival_info)
Merge(u) ==
    /\ ~crashed
    /\ pc[u] = "merge"
    /\ unitData' = [unitData EXCEPT ![u] =
                   MergeArtists(@, MergeInput(u), cls[u], fest[u], clock + 1)]
    /\ clock' = clock + 1
    /\ pc' = [pc EXCEPT ![u] = "save"]
    /\ UNCHANGED <<kind, job, unitNames, fest, cls, validated, idx, cur, attempts,
                   raised, progress, sent, fsVars, mergeVars, fnVars, crashed, scope>>

\* save_data lines 25-27: the stamp, makedirs and mkstemp, which create the
\* empty temporary file or raise (nothing is created then).
SaveOpen(u) ==
    /\ ~crashed
    /\ pc[u] = "save"
    /\ \E ok \in BOOLEAN :
          IF ok
          THEN LET doc == [exists |-> TRUE, chunks |-> 0,
                           data |-> [unitData[u] EXCEPT !.metadata.last_modified = clock]]
               IN  /\ IF WritesToTmp
                      THEN tmp' = [tmp EXCEPT ![u] = doc] /\ UNCHANGED file
                      ELSE file' = doc /\ UNCHANGED tmp
                   /\ unitData' = [unitData EXCEPT ![u] = doc.data]
                   /\ pc' = [pc EXCEPT ![u] = "write"]
                   /\ UNCHANGED job
          ELSE Abort(u, "exception") /\ UNCHANGED <<unitData, fsVars>>
    /\ UNCHANGED <<kind, unitNames, fest, cls, validated, idx, cur, attempts, raised,
                   progress, sent, mergeVars, fnVars, clock, crashed, scope>>

\* save_data lines 29-30: json.dump writes the document chunk by chunk and the
\* file is closed; on an exception the handler unlinks the temporary file.
SaveWrite(u) ==
    /\ ~crashed
    /\ pc[u] = "write"
    /\ \E ok \in BOOLEAN :
          IF ok
          THEN /\ IF WritesToTmp
                  THEN tmp' = [tmp EXCEPT ![u].chunks = @ + 1] /\ UNCHANGED file
                  ELSE file' = [file EXCEPT !.chunks = @ + 1] /\ UNCHANGED tmp
               /\ pc' = [pc EXCEPT ![u] =
                            IF (IF WritesToTmp THEN tmp[u] ELSE file).chunks + 1
                                  >= DocChunks
                            THEN "replace" ELSE "write"]
               /\ UNCHANGED job
          ELSE /\ tmp' = [tmp EXCEPT ![u] = TmpAfterError(@)]
               /\ Abort(u, "exception")
               /\ UNCHANGED file
    /\ UNCHANGED <<kind, unitNames, fest, unitData, cls, validated, idx, cur, attempts,
                   raised, progress, sent, mergeVars, fnVars, clock, crashed, scope>>

\* save_data line 31: os.replace(tmp_path, DATA_FILE), atomic; on an
\* exception the handler unlinks the temporary file.
SaveReplace(u) ==
    /\ ~crashed
    /\ pc[u] = "replace"
    /\ \E ok \in BOOLEAN :
          IF ok
          THEN /\ IF WritesToTmp
                  THEN file' = tmp[u] /\ tmp' = [tmp EXCEPT ![u] = NoFile]
                  ELSE UNCHANGED fsVars
               /\ pc' = [pc EXCEPT ![u] = "finish"]
               /\ UNCHANGED job
          ELSE /\ tmp' = [tmp EXCEPT ![u] = TmpAfterError(@)]
               /\ Abort(u, "exception")
               /\ UNCHANGED file
    /\ UNCHANGED <<kind, unitNames, fest, unitData, cls, validated, idx, cur, attempts,
                   raised, progress, sent, mergeVars, fnVars, clock, crashed, scope>>

\* The worker's last lines: job["status"] = "done".
Finish(u) ==
    /\ ~crashed
    /\ pc[u] = "finish"
    /\ job' = [job EXCEPT ![u] =
                  [@ EXCEPT !.artist_count = Len(MergeInput(u)), !.status = "done"]]
    /\ pc' = [pc EXCEPT ![u] = "end"]
    /\ UNCHANGED <<kind, unitNames, fest, unitData, cls, validated, idx, cur, attempts,
                   raised, progress, sent, fsVars, mergeVars, fnVars, clock, crashed, scope>>

\* One step of unit u's thread, or its start by the request handler.
UnitStep(u) ==
    \/ StartWeb(u) \/ StartImage(u) \/ Load(u) \/ BatchNext(u)
    \/ Search(u) \/ Tags(u) \/ Scan(u) \/ ImgNext(u) \/ Validate(u)
    \/ Reload(u) \/ Merge(u) \/ SaveOpen(u) \/ SaveWrite(u)
    \/ SaveReplace(u) \/ Finish(u)

\* The process dies: every thread stops, the files stay as they are.
Crash ==
    /\ ~crashed
    /\ crashed' = TRUE
    /\ UNCHANGED <<unitVars, fsVars, mergeVars, fnVars, clock, scope>>

\* ---------------------------------------------------------- specifications

\* The DATA_FILE an earlier run of the program left: "Abc" with the genres
\* the service's tags gave it and "Xyz" with the unknown pair, on the
\* scraped festival.
PriorFile ==
    [exists |-> TRUE, chunks |-> DocChunks,
     data |-> MergeArtists(EmptyData, <<"Abc", "Xyz">>,
                  ("Abc" :> (CHOOSE c \in ClassPairs : HasRealGenres(c)))
                  @@ ("Xyz" :> UnknownPair),
                  CHOOSE f \in WebFestivals : TRUE, 0)]

\* No job yet, no temporary file.
InitUnits ==
    /\ tmp = [u \in Units |-> NoFile]
    /\ crashed = FALSE
    /\ kind = [u \in Units |-> "none"]
    /\ job = [u \in Units |-> NoJob]
    /\ unitNames = [u \in Units |-> <<>>]
    /\ fest = [u \in Units |-> [name |-> "", url |-> ""]]
    /\ unitData = [u \in Units |-> EmptyData]
    /\ cls = [u \in Units |-> <<>>]
    /\ validated = [u \in Units |-> <<>>]
    /\ idx = [u \in Units |-> 1]
    /\ cur = [u \in Units |-> ""]
    /\ attempts = [u \in Units |-> 0]
    /\ raised = [u \in Units |-> {}]
    /\ progress = [u \in Units |-> <<>>]
    /\ sent = [u \in Units |-> [search |-> 0, tags |-> 0, found |-> 0,
                                repeats |-> [search |-> 0, tags |-> 0]]]

\* The arguments and the result before a function is called: none.
NotCalled == [none |-> TRUE]

\* No function of SpecFn has been called.
InitFn == fn = "" /\ arg = NotCalled /\ res = NotCalled

vars ==
    <<store, storeBefore, call, clock, fsVars, crashed, unitVars, scope, fnVars>>

\* Sequences of merge_artists calls on one in-memory knowledge base.
InitMergeOnly ==
    /\ InitMerge /\ InitUnits /\ InitFn
    /\ file = NoFile
    /\ pc = [u \in Units |-> "off"]
    /\ scope = "wide"

NextMerge == MergeCall /\ UNCHANGED <<fsVars, crashed, unitVars, scope, fnVars>>

SpecMerge == InitMergeOnly /\ [][NextMerge]_vars

\* Two units of work, submitted and run concurrently; no DATA_FILE yet.
Init ==
    /\ InitMerge /\ InitUnits /\ InitFn
    /\ file = NoFile
    /\ pc = [u \in Units |-> IF u <= 2 THEN "idle" ELSE "off"]
    /\ scope = "narrow"

Next == \E u \in Units : UnitStep(u)

Spec == Init /\ [][Next]_vars

\* The same, in a process that may crash at any point.
NextCrash == Next \/ Crash

SpecCrash == Init /\ [][NextCrash]_vars

\* One step of a web unit's thread, or its start by scrape().
WebStep(u) ==
    \/ StartWeb(u) \/ Load(u) \/ BatchNext(u) \/ Search(u) \/ Tags(u)
    \/ Reload(u) \/ Merge(u) \/ SaveOpen(u) \/ SaveWrite(u)
    \/ SaveReplace(u) \/ Finish(u)

\* Three web units of one name each, submitted and run concurrently; the
\* service answers every request with the artist and its tags.
InitThree ==
    /\ InitMerge /\ InitUnits /\ InitFn
    /\ file = NoFile
    /\ pc = [u \in Units |-> "idle"]
    /\ scope = "three"

NextThree == \E u \in Units : WebStep(u)

SpecThree == InitThree /\ [][NextThree]_vars

\* One unit of work, with every input and every answer of the service, on
\* no DATA_FILE or on an earlier run's.
InitOne ==
    /\ InitMerge /\ InitUnits /\ InitFn
    /\ file \in {NoFile, PriorFile}
    /\ pc = [u \in Units |-> IF u = 1 THEN "idle" ELSE "off"]
    /\ scope = "wide"

SpecOne == InitOne /\ [][Next]_vars

\* The same, where the unit's thread keeps being scheduled and every request
\* is answered or times out.
SpecLive == SpecOne /\ \A u \in Units : WF_vars(UnitStep(u))

\* ------------------------------------------------------- ocr: noise filter

\* len(text.split())
WordCount(s) ==
    Cardinality({i \in 1..Len(s) : ~IsSpace(s[i]) /\ (i = 1 \/ IsSpace(s[i - 1]))})

\* ocr._is_ocr_noise
IsOcrNoise(raw) ==
    LET text == Strip(raw)
        digit_count == Cardinality({i \in 1..Len(text) : IsDigit(text[i])})
        alpha_count == Cardinality({i \in 1..Len(text) : IsAlpha(text[i])})
    IN  \/ text = <<>>
        \/ Len(text) < 2
        \/ ReSearch(SENTENCE_CHARS, text, FALSE)
        \/ ReSearch(MULTI_COMMA, text, FALSE)
        \/ \E i \in 1..Len(text) : text[i] = ":"
        \/ ReMatch(DATE_PATTERN, text, TRUE)
        \/ ReMatch(POSTER_NOISE, text, TRUE)
        \/ 2 * digit_count > Len(text)
        \/ WordCount(text) > 6
        \/ alpha_count < 2

\* -------------------------------------------------- scraper: festival name

\* scraper._extract_festival_name: r"\s*[|\-–—:]\s*"
TITLE_SPLIT ==
    [op |-> "seq", items |-> <<[op |-> "rep", min |-> 0, max |-> -1, item |-> [op |-> "in",
    chars |-> {}, cats |-> {"space"}, neg |-> FALSE]], [op |-> "in", chars |-> {"|", "-", "EN DASH",
    "EM DASH", ":"}, cats |-> {}, neg |-> FALSE], [op |-> "rep", min |-> 0, max |-> -1,
    item |-> [op |-> "in", chars |-> {}, cats |-> {"space"}, neg |-> FALSE]]>>]

\* scraper._extract_festival_name: r"\s+(lineup|artists?|schedule|tickets?|\d{4})$", matched ignoring case.
NAME_SUFFIX ==
    [op |-> "seq", items |-> <<[op |-> "rep", min |-> 1, max |-> -1, item |-> [op |-> "in",
    chars |-> {}, cats |-> {"space"}, neg |-> FALSE]], [op |-> "alt", items |-> <<[op |-> "str",
    cs |-> <<"l", "i", "n", "e", "u", "p">>], [op |-> "seq", items |-> <<[op |-> "str",
    cs |-> <<"a", "r", "t", "i", "s", "t">>], [op |-> "rep", min |-> 0, max |-> 1,
    item |-> [op |-> "lit", c |-> "s"]]>>], [op |-> "str", cs |-> <<"s", "c", "h", "e", "d", "u",
    "l", "e">>], [op |-> "seq", items |-> <<[op |-> "str", cs |-> <<"t", "i", "c", "k", "e", "t">>],
    [op |-> "rep", min |-> 0, max |-> 1, item |-> [op |-> "lit", c |-> "s"]]>>], [op |-> "rep",
    min |-> 4, max |-> 4, item |-> [op |-> "in", chars |-> {}, cats |-> {"digit"},
    neg |-> FALSE]]>>], [op |-> "at", where |-> "end"]>>]

\* The texts of the sample pages, the generic names and the default name,
\* with their characters.
PageChars ==
    [s \in {"", "Lineup", "Home | Tickets", "Creamfields 2025 - Lineup",
        "Lineup | Creamfields 2025", "Festival 2025", "Line-Up", "Creamfields Lineup",
        "www.creamfields.com", "tickets.example.com", "dc.com", "my-fest.org", "lineup", "artists",
        "line-up", "schedule", "tickets", "home", "festival", "Unknown Festival", "www."} |->
        CASE s = "" -> <<>>
          [] s = "Lineup" -> <<"L", "i", "n", "e", "u", "p">>
          [] s = "Home | Tickets" -> <<"H", "o", "m", "e", " ", "|", " ", "T", "i", "c", "k", "e", "t", "s">>
          [] s = "Creamfields 2025 - Lineup" -> <<"C", "r", "e", "a", "m", "f", "i", "e", "l", "d", "s", " ", "2", "0", "2", "5", " ", "-", " ", "L", "i", "n", "e", "u", "p">>
          [] s = "Lineup | Creamfields 2025" -> <<"L", "i", "n", "e", "u", "p", " ", "|", " ", "C", "r", "e", "a", "m", "f", "i", "e", "l", "d", "s", " ", "2", "0", "2", "5">>
          [] s = "Festival 2025" -> <<"F", "e", "s", "t", "i", "v", "a", "l", " ", "2", "0", "2", "5">>
          [] s = "Line-Up" -> <<"L", "i", "n", "e", "-", "U", "p">>
          [] s = "Creamfields Lineup" -> <<"C", "r", "e", "a", "m", "f", "i", "e", "l", "d", "s", " ", "L", "i", "n", "e", "u", "p">>
          [] s = "www.creamfields.com" -> <<"w", "w", "w", ".", "c", "r", "e", "a", "m", "f", "i", "e", "l", "d", "s", ".", "c", "o", "m">>
          [] s = "tickets.example.com" -> <<"t", "i", "c", "k", "e", "t", "s", ".", "e", "x", "a", "m", "p", "l", "e", ".", "c", "o", "m">>
          [] s = "dc.com" -> <<"d", "c", ".", "c", "o", "m">>
          [] s = "my-fest.org" -> <<"m", "y", "-", "f", "e", "s", "t", ".", "o", "r", "g">>
          [] s = "lineup" -> <<"l", "i", "n", "e", "u", "p">>
          [] s = "artists" -> <<"a", "r", "t", "i", "s", "t", "s">>
          [] s = "line-up" -> <<"l", "i", "n", "e", "-", "u", "p">>
          [] s = "schedule" -> <<"s", "c", "h", "e", "d", "u", "l", "e">>
          [] s = "tickets" -> <<"t", "i", "c", "k", "e", "t", "s">>
          [] s = "home" -> <<"h", "o", "m", "e">>
          [] s = "festival" -> <<"f", "e", "s", "t", "i", "v", "a", "l">>
          [] s = "Unknown Festival" -> <<"U", "n", "k", "n", "o", "w", "n", " ", "F", "e", "s", "t", "i", "v", "a", "l">>
          [] s = "www." -> <<"w", "w", "w", ".">>]

\* scraper._GENERIC_NAMES
GENERIC_NAMES ==
    {"lineup", "artists", "line-up", "schedule", "tickets", "home", "festival"}

\* candidate.lower() in _GENERIC_NAMES
IsGeneric(cs) == \E g \in GENERIC_NAMES : PageChars[g] = Lower(cs)

\* str.title(): a letter is in upper case after a character that is no
\* letter, in lower case after a letter.
Title(cs) ==
    LET UpperChar(c) ==
            IF \E i \in 1..Len(LowerCase) : LowerCase[i] = c
            THEN UpperCase[CHOOSE i \in 1..Len(LowerCase) : LowerCase[i] = c]
            ELSE c
    IN  [i \in 1..Len(cs) |->
            IF i = 1 \/ ~IsAlpha(cs[i - 1]) THEN UpperChar(cs[i]) ELSE LowerChar(cs[i])]

RECURSIVE RemoveAll(_, _)
\* cs.replace(sub, "")
RemoveAll(cs, sub) ==
    IF Len(cs) < Len(sub) THEN cs
    ELSE IF SubSeq(cs, 1, Len(sub)) = sub
    THEN RemoveAll(SubSeq(cs, Len(sub) + 1, Len(cs)), sub)
    ELSE <<cs[1]>> \o RemoveAll(Tail(cs), sub)

\* cs.split(sep)[0]
FirstField(cs, sep) ==
    LET at == {i \in 1..Len(cs) : cs[i] = sep}
    IN  IF at = {} THEN cs
        ELSE SubSeq(cs, 1, (CHOOSE i \in at : \A j \in at : i <= j) - 1)

\* hostname.replace("www.", "").split(".")[0]
DomainName(hostname) == FirstField(RemoveAll(hostname, PageChars["www."]), ".")

\* The parts of the title: re.split on the delimiters, each part stripped,
\* the empty ones left out.
TitleParts(title) ==
    LET parts == ReSplit(TITLE_SPLIT, Strip(title), 1)
        kept  == SelectSeq(parts, LAMBDA part : Strip(part) # <<>>)
    IN  [i \in 1..Len(kept) |-> Strip(kept[i])]

\* candidates before the loop (the domain label is
\* domain_name.replace("-", " ").title()): title and h1 are the text of the tag in a
\* sequence of one, or <<>> without the tag; hostname is "" without a url.
FestivalCandidates(title, h1, hostname) ==
    (IF title # <<>> /\ title[1] # <<>> THEN TitleParts(title[1]) ELSE <<>>)
    \o (IF h1 # <<>> THEN <<Strip(h1[1])>> ELSE <<>>)
    \o (LET domain_name == DomainName(hostname)
        IN  IF domain_name # <<>> /\ Len(domain_name) > 2
            THEN <<Title([i \in 1..Len(domain_name) |->
                             IF domain_name[i] = "-" THEN " " ELSE domain_name[i]])>>
            ELSE <<>>)

\* re.sub(NAME_SUFFIX, "", candidate, flags=re.I).strip(): the pattern ends
\* at the end of the text, so the leftmost match is the only one.
StripSuffix(candidate) ==
    LET starts == {i \in 1..(Len(candidate) + 1) :
                      Ends(NAME_SUFFIX, candidate, i, TRUE) # {}}
    IN  IF starts = {} THEN Strip(candidate)
        ELSE Strip(SubSeq(candidate, 1,
                          (CHOOSE i \in starts : \A j \in starts : i <= j) - 1))

RECURSIVE PickFestivalName(_, _)
\* The loop over the candidates from the i-th on, and the last line:
\* return candidates[0] if candidates else "Unknown Festival"
PickFestivalName(candidates, i) ==
    IF i > Len(candidates)
    THEN IF candidates # <<>> THEN candidates[1] ELSE PageChars["Unknown Festival"]
    ELSE IF ~IsGeneric(candidates[i]) /\ Len(candidates[i]) > 2
    THEN IF StripSuffix(candidates[i]) # <<>> /\ ~IsGeneric(StripSuffix(candidates[i]))
         THEN StripSuffix(candidates[i])
         ELSE candidates[i]
    ELSE PickFestivalName(candidates, i + 1)

\* scraper._extract_festival_name
ExtractFestivalName(title, h1, hostname) ==
    PickFestivalName(FestivalCandidates(title, h1, hostname), 1)

\* -------------------------------------------------- app: similar artists

\* all_artists is data["artists"], a dict, as the sequence of its items in
\* iteration order: key and artist, of which name, genres and timbre are read.

\* all_tags after the loop, with "unknown" discarded; sorted(all_tags) orders
\* the positions of the vectors, which are indexed here by the tags themselves.
Vocab(all_artists) ==
    UNION {Range(all_artists[i].artist.genres) \cup Range(all_artists[i].artist.timbre) :
              i \in 1..Len(all_artists)} \ {"unknown"}

\* to_vector(artist)
ToVector(artist, vocab) ==
    [t \in vocab |->
        IF t \in Range(artist.genres) \cup Range(artist.timbre) THEN 1 ELSE 0]

\* sum(x * y for x, y in zip(a, b)), the entries being 0 or 1.
Dot(a, b) == Cardinality({t \in DOMAIN a : a[t] * b[t] = 1})

\* cosine_sim(a, b), a number from 0 to 1, kept as the fraction num / den that
\* is its square: dot / (sqrt(x) * sqrt(y)) squared is dot * dot / (x * y).
CosineSim(a, b) ==
    IF Dot(a, a) = 0 \/ Dot(b, b) = 0 THEN [num |-> 0, den |-> 1]
    ELSE [num |-> Dot(a, b) * Dot(a, b), den |-> Dot(a, a) * Dot(b, b)]

\* Mutant of SimLess: the order of the similarities is reversed.
SimGreater(x, y) == x.num * y.den > y.num * x.den

\* x < y on two similarities.
SimLess(x, y) == x.num * y.den < y.num * x.den

\* target_key = target["name"].lower()
TargetKey(target) == Lower(NameChars[target.name])

\* The loop over all_artists.items(): scored.
Scored(target, all_artists, vocab) ==
    LET kept == SelectSeq(all_artists,
                    LAMBDA e : /\ NameChars[e.key] # TargetKey(target)
                               /\ e.artist.genres # UNKNOWN)
    IN  [i \in 1..Len(kept) |->
            [sim |-> CosineSim(ToVector(target, vocab), ToVector(kept[i].artist, vocab)),
             a |-> kept[i].artist]]

RECURSIVE SortBySim(_)
\* scored.sort(key=lambda x: x[0], reverse=True): a stable sort, the highest
\* similarity first.
SortBySim(scored) ==
    IF scored = <<>> THEN <<>>
    ELSE LET best == CHOOSE i \in 1..Len(scored) :
                        /\ \A j \in 1..Len(scored) : ~SimLess(scored[i].sim, scored[j].sim)
                        /\ \A j \in 1..(i - 1) : SimLess(scored[j].sim, scored[i].sim)
             rest == [j \in 1..(Len(scored) - 1) |->
                        IF j < best THEN scored[j] ELSE scored[j + 1]]
         IN  <<scored[best]>> \o SortBySim(rest)

\* app._find_similar_artists
FindSimilarArtists(target, all_artists, k) ==
    LET vocab == Vocab(all_artists)
        top   == Take(SortBySim(Scored(target, all_artists, vocab)), k)
    IN  IF vocab = {} THEN <<>>
        ELSE [i \in 1..Len(top) |-> top[i].a]

\* ------------------------------------------------ functions, called alone

\* The variables a function call leaves alone.
restVars == <<mergeVars, clock, fsVars, crashed, unitVars, scope>>

\* "limit": 3 in the query of _validate_artist_musicbrainz: the service
\* returns at most 3 candidates.
ValidateLimit == 3

\* The candidates of an answer: the name as it was read, spellings and
\* misreadings of it, other artists; scores on both sides of 80 and of 90.
Candidates == [name : {"Abc", " abc", "Abd", "Xyz", "Abcde"}, score : {79, 80, 89, 90}]

CandidateLists == UNION {[1..n -> Candidates] : n \in 0..ValidateLimit}

ValidateQueries == {"Abc", " abc", "Abxyz"}

\* _validate_artist_musicbrainz(name) on a 200 answer; "" stands for None.
ValidateCall ==
    /\ fn = ""
    /\ \E name \in ValidateQueries, artists \in CandidateLists :
          /\ arg' = [name |-> name, artists |-> artists]
          /\ res' = [match |-> ValidateMatch(name, artists)]
    /\ fn' = "validate"
    /\ UNCHANGED restVars

\* The name lists given to _clean_artist_names: back-to-back sets, notes in
\* parentheses, names that differ in case only, names that clean to nothing.
CleanTexts ==
    {"Artist A b2b Artist B (Sunrise Set)", "artist a", "Artist A", "Artist B",
     "(Live)", "A B2B b", "Xb2bY (x) (y)", " b2b ", "b", "Daft Punk"}

MaxNames == 3

CleanInputs == UNION {[1..n -> CleanTexts] : n \in 0..MaxNames}

\* _clean_artist_names(names); the result is kept as sequences of characters.
CleanCall ==
    /\ fn = ""
    /\ \E names \in CleanInputs :
          /\ arg' = [names |-> names]
          /\ res' = [names |-> CleanArtistNames([i \in 1..Len(names) |-> TextChars[names[i]]])]
    /\ fn' = "clean"
    /\ UNCHANGED restVars

\* _is_ocr_noise(text)
NoiseCall ==
    /\ fn = ""
    /\ \E text \in DOMAIN TextChars :
          /\ arg' = [text |-> text]
          /\ res' = [noise |-> IsOcrNoise(TextChars[text])]
    /\ fn' = "noise"
    /\ UNCHANGED restVars

\* The display names of the stored artists, in the order they were stored, one
\* of them with a leading blank; merge_artists stores each under the key
\* _normalize_name(name).
SimilarNames == <<"Abd", " abc", "Xyz", "Abcde", "Abxyz">>

MaxArtists == 4

MaxK == 3

\* The genres and timbre an artist is stored with: those of an artist without
\* tags, the default of merge_artists for a name that has no classification,
\* and those classify_artist gives for some tags.
SimilarPairs ==
    {UnknownPair, [genres |-> <<>>, timbre |-> <<>>]}
    \cup {[genres |-> TagsToGenres(tags), timbre |-> TagsToTimbre(tags)] :
             tags \in {<<"house", "techno">>, <<"techno">>, <<"k-pop">>}}

\* _find_similar_artists(target, all_artists, k), the target taken from
\* all_artists as artist_detail does.
SimilarCall ==
    /\ fn = ""
    /\ \E n \in 1..MaxArtists, k \in 1..MaxK :
          \E pairs \in [1..n -> SimilarPairs], t \in 1..n :
             LET all_artists ==
                    [i \in 1..n |->
                        [key |-> NormalizeName(SimilarNames[i]),
                         artist |-> [name |-> SimilarNames[i],
                                     genres |-> pairs[i].genres,
                                     timbre |-> pairs[i].timbre]]]
             IN  /\ arg' = [target |-> all_artists[t].artist,
                            all_artists |-> all_artists, k |-> k]
                 /\ res' = [artists |-> FindSimilarArtists(all_artists[t].artist, all_artists, k)]
    /\ fn' = "similar"
    /\ UNCHANGED restVars

\* _extract_festival_name(soup, url): the <title> and the first <h1> of the
\* page, if any, and urlparse(url).hostname, "" for no url.
FestivalCall ==
    /\ fn = ""
    /\ \E title \in {<<>>, <<"Lineup">>, <<"Home | Tickets">>,
                     <<"Creamfields 2025 - Lineup">>, <<"Lineup | Creamfields 2025">>,
                     <<"Festival 2025">>},
          h1 \in {<<>>, <<"">>, <<"Line-Up">>, <<"Creamfields Lineup">>},
          hostname \in {"", "www.creamfields.com", "tickets.example.com", "dc.com",
                        "my-fest.org"} :
          /\ arg' = [title |-> title, h1 |-> h1, hostname |-> hostname]
          /\ res' = [festival |->
                        ExtractFestivalName(
                            [i \in 1..Len(title) |-> PageChars[title[i]]],
                            [i \in 1..Len(h1) |-> PageChars[h1[i]]],
                            PageChars[hostname])]
    /\ fn' = "festival"
    /\ UNCHANGED restVars

\* One call of one function.
InitFnOnly ==
    /\ InitMerge /\ InitUnits /\ InitFn
    /\ file = NoFile
    /\ pc = [u \in Units |-> "off"]
    /\ scope = "wide"

NextFn == ValidateCall \/ CleanCall \/ NoiseCall \/ SimilarCall \/ FestivalCall

SpecFn == InitFnOnly /\ [][NextFn]_vars

\* ------------------------------------------------- claims on merge_artists

\* A merge_artists call has been made: store is its result on storeBefore.
Called == clock > 0

\* The urls of a list of festival records or references.
UrlsOf(festivals) == {festivals[i].url : i \in 1..Len(festivals)}

\* The number of artists, of Festival entries and of references per artist.
Cardinalities(data) ==
    [artists |-> Cardinality(DOMAIN data.artists),
     festivals |-> Len(data.festivals),
     references |-> [k \in DOMAIN data.artists |-> Len(data.artists[k].festivals)]]

\* The last call, made a second time on its own result.
MergedAgain ==
    MergeArtists(store, call.names, call.classifications, call.festival_info,
                 clock + 1)

\* C1: merging a second time with the same names, classifications and
\* festival_info leaves the number of artists, of Festival entries and of
\* festival references of every artist as the first merge left them.
C1_MergeIdempotent ==
    Called => Cardinalities(MergedAgain) = Cardinalities(store)

\* C1's case: a merge into a non-empty store that added an artist and a Festival.
C1_Witness ==
    /\ Called
    /\ storeBefore.artists # <<>>
    /\ Cardinality(DOMAIN store.artists) > Cardinality(DOMAIN storeBefore.artists)
    /\ Len(store.festivals) > Len(storeBefore.festivals)
    /\ Cardinalities(MergedAgain) = Cardinalities(store)

\* C2: an artist stored with real genres keeps its genres and timbre when a
\* merge names it with the classification ["unknown"].
C2_NoRegression ==
    Called =>
        \A i \in 1..Len(call.names) :
            LET name == call.names[i]
                key == NormalizeName(name)
            IN  ( /\ key \in DOMAIN storeBefore.artists
                  /\ storeBefore.artists[key].genres \notin {<<>>, UNKNOWN}
                  /\ name \in DOMAIN call.classifications
                  /\ call.classifications[name].genres = UNKNOWN )
                => /\ store.artists[key].genres = storeBefore.artists[key].genres
                   /\ store.artists[key].timbre = storeBefore.artists[key].timbre

\* The name has no classification, or one with an empty genre list.
NoNewData(name) ==
    \/ name \notin DOMAIN call.classifications
    \/ call.classifications[name].genres = <<>>

\* The last merge left the artist's genres and timbre alone, appended exactly
\* one reference for the url unless the artist had one, and added exactly one
\* Festival entry for the url unless the store had one.
OnlyFestivalAdded(key) ==
    LET before == storeBefore.artists[key]
        after == store.artists[key]
        url == call.festival_info.url
    IN  /\ after.genres = before.genres
        /\ after.timbre = before.timbre
        /\ IF url \in UrlsOf(before.festivals)
           THEN after.festivals = before.festivals
           ELSE /\ Len(after.festivals) = Len(before.festivals) + 1
                /\ SubSeq(after.festivals, 1, Len(before.festivals)) = before.festivals
                /\ after.festivals[Len(after.festivals)].url = url
        /\ IF url \in UrlsOf(storeBefore.festivals)
           THEN store.festivals = storeBefore.festivals
           ELSE /\ Len(store.festivals) = Len(storeBefore.festivals) + 1
                /\ SubSeq(store.festivals, 1, Len(storeBefore.festivals))
                      = storeBefore.festivals
                /\ store.festivals[Len(store.festivals)].url = url

\* C3, as claimed: a stored artist named without new data is left with its
\* genres and timbre, and gains exactly the festival reference and entry.
C3_Original ==
    Called =>
        \A i \in 1..Len(call.names) :
            LET key == NormalizeName(call.names[i])
            IN  (key \in DOMAIN storeBefore.artists /\ NoNewData(call.names[i]))
                => OnlyFestivalAdded(key)

\* C3, amended: the same, provided no other name of the batch with the same
\* normalized key carries a classification with a non-empty genre list.
C3_ExistingWithoutNewData ==
    Called =>
        \A i \in 1..Len(call.names) :
            LET key == NormalizeName(call.names[i])
            IN  ( /\ key \in DOMAIN storeBefore.artists
                  /\ \A j \in 1..Len(call.names) :
                        NormalizeName(call.names[j]) = key => NoNewData(call.names[j]) )
                => OnlyFestivalAdded(key)

\* C3's case: a classified artist named without new data, under a second
\* spelling too, for a festival url new to the artist and to the store.
C3_Witness ==
    /\ Called
    /\ Len(call.names) = 2
    /\ \A i \in 1..Len(call.names) :
          /\ NormalizeName(call.names[i]) = "abc"
          /\ NoNewData(call.names[i])
    /\ "abc" \in DOMAIN storeBefore.artists
    /\ storeBefore.artists["abc"].genres \notin {<<>>, UNKNOWN}
    /\ call.festival_info.url \notin UrlsOf(storeBefore.festivals)
    /\ Len(store.artists["abc"].festivals) = 2
    /\ Len(store.festivals) = 2

\* C5: no artist has two festival references with the same url, and a merge
\* keeps every reference an artist had, unchanged and in place.
C5_ReferencesAppendOnly ==
    /\ \A k \in DOMAIN store.artists :
          \A i, j \in 1..Len(store.artists[k].festivals) :
             store.artists[k].festivals[i].url = store.artists[k].festivals[j].url
                => i = j
    /\ \A k \in DOMAIN storeBefore.artists :
          /\ k \in DOMAIN store.artists
          /\ SubSeq(store.artists[k].festivals, 1,
                    Len(storeBefore.artists[k].festivals))
                = storeBefore.artists[k].festivals

\* C5's case: a merge named a stored artist for a url the artist did not
\* have, and the reference was appended after the one the artist had.
C5_Witness ==
    /\ Called
    /\ \E k \in DOMAIN storeBefore.artists :
          /\ k \in {NormalizeName(n) : n \in Range(call.names)}
          /\ Len(storeBefore.artists[k].festivals) = 1
          /\ Len(store.artists[k].festivals) = 2
          /\ store.artists[k].festivals[1] = storeBefore.artists[k].festivals[1]
          /\ store.artists[k].festivals[2].url = call.festival_info.url


\* ------------------------------------------------ claims on units of work

\* Every copy of the knowledge base: DATA_FILE, the temporary files and the
\* data each unit holds in memory.
Documents ==
    {file.data} \cup {tmp[u].data : u \in Units} \cup {unitData[u] : u \in Units}

OneEntryPerUrl(data) ==
    \A i, j \in 1..Len(data.festivals) :
       data.festivals[i].url = data.festivals[j].url => i = j

\* The step is unit u's call of merge_artists.
MergeStep(u) == pc[u] = "merge" /\ pc'[u] = "save"

\* A merge whose url the loaded store already has adds no Festival entry and
\* leaves every named artist with a reference for the url.
UrlPresentStep(u) ==
    (MergeStep(u) /\ fest[u].url \in UrlsOf(unitData[u].festivals))
    => /\ unitData'[u].festivals = unitData[u].festivals
       /\ \A i \in 1..Len(MergeInput(u)) :
             LET key == NormalizeName(MergeInput(u)[i])
             IN  /\ key \in DOMAIN unitData'[u].artists
                 /\ fest[u].url \in UrlsOf(unitData'[u].artists[key].festivals)

\* C4: whatever the units' merges and their interleaving, no copy of the
\* store has two Festival entries with the same url; a merge with a url
\* already present adds no entry and still associates the named artists.
C4_OneFestivalPerUrl ==
    /\ [](\A d \in Documents : OneEntryPerUrl(d))
    /\ [][\A u \in Units : UrlPresentStep(u)]_vars

\* C4's case: a unit reloaded a store that had its url, and its merge added
\* an artist the store did not have, and no Festival entry.
C4_Witness ==
    \E u \in Units :
       /\ pc[u] = "save"
       /\ IsComplete(file)
       /\ fest[u].url \in UrlsOf(file.data.festivals)
       /\ Len(unitData[u].festivals) = 1
       /\ "xyz" \in DOMAIN unitData[u].artists
       /\ "xyz" \notin DOMAIN file.data.artists

\* DATA_FILE changes only by the replace of a unit, to that unit's whole
\* new document.
FileStep ==
    \/ file' = file
    \/ \E u \in Units :
          /\ pc[u] = "replace"
          /\ IsComplete(tmp[u])
          /\ tmp[u].data = unitData[u]
          /\ file' = tmp[u]

\* C6: at every point, a crash included, DATA_FILE is absent or a whole
\* document, and it goes from its previous content to a unit's whole new
\* content in one step.
C6_CrashAtomic ==
    /\ [](file = NoFile \/ IsComplete(file))
    /\ [][FileStep]_vars

\* C6's case: the process crashed while a unit's temporary file was partly
\* written; DATA_FILE holds the whole document of the save before.
C6_Witness ==
    /\ crashed
    /\ IsComplete(file)
    /\ \E u \in Units :
          /\ pc[u] = "write"
          /\ tmp[u].exists
          /\ tmp[u].chunks > 0
          /\ tmp[u].chunks < DocChunks
          /\ tmp[u].data # file.data

\* The step is a failure of unit u's save_data in json.dump or os.replace.
SaveFailStep(u) == pc[u] \in {"write", "replace"} /\ pc'[u] = "end"

\* C7: when save_data fails while writing the temporary file or replacing
\* DATA_FILE, the caller gets the exception (the job ends in error),
\* DATA_FILE keeps its content and the temporary file is gone.
C7_FailedSaveCleansUp ==
    [][\A u \in Units :
          SaveFailStep(u) => /\ job'[u].status = "error"
                             /\ file' = file
                             /\ tmp'[u] = NoFile]_vars

\* C7's case: a unit's save stamped the data and then failed, while
\* DATA_FILE held the other unit's document.
C7_Witness ==
    \E u \in Units :
       /\ pc[u] = "end"
       /\ job[u].status = "error"
       /\ unitData[u].metadata.last_modified > 0
       /\ tmp[u] = NoFile
       /\ IsComplete(file)
       /\ file.data # unitData[u]

\* C8, as claimed: the search request and the tags request of a name are
\* each made at most 3 times: after three 503 answers no further one is made.
C8_RetryCapped ==
    \A u \in Units : pc[u] \in {"search", "tags"} => attempts[u] < 3

NotSkipped(u, n) ==
    {unitNames[u][i] : i \in {j \in 1..n : ~AlreadyClassified(unitData[u], unitNames[u][j])}}

\* C10: in classify_batch, a name for which classify_artist raised has the
\* unknown pair as its result, the loop goes on, and the result has exactly
\* the names that were not skipped: all of them when the batch returns.
C10_BatchContainsFailures ==
    \A u \in Units :
       kind[u] = "web" =>
          /\ \A n \in raised[u] : n \in DOMAIN cls[u] /\ cls[u][n] = UnknownPair
          /\ pc[u] \in {"batch", "search", "tags", "reload"} =>
                /\ job[u].status = "running"
                /\ DOMAIN cls[u] = NotSkipped(u, idx[u] - 1)
          /\ pc[u] = "reload" => idx[u] = Len(unitNames[u]) + 1

\* C10's case: classify_artist raised for the first of two names, the second
\* was classified, and classify_batch has returned.
C10_Witness ==
    \E u \in Units :
       /\ kind[u] = "web"
       /\ pc[u] = "reload"
       /\ unitNames[u] = <<"Abc", "Xyz">>
       /\ raised[u] = {"Abc"}
       /\ HasRealGenres(cls[u]["Xyz"])


\* ------------------------------------------------ claims on classify_batch

\* The unit is inside classify_batch, or classify_batch has just returned.
InBatch(u) == kind[u] = "web" /\ pc[u] \in {"batch", "search", "tags", "reload"}

\* classify_batch has returned to the unit's worker.
BatchReturned(u) ==
    kind[u] = "web" /\ pc[u] \in {"reload", "merge", "save", "write", "replace", "finish"}

\* C11: on_progress is called once after each name, in input order, with the
\* name, its position counted from 1 and the number of names: n calls after
\* n names, all N once classify_batch has returned; the job shows the last.
C11_ProgressPerName ==
    \A u \in Units :
       kind[u] = "web" =>
          /\ Len(progress[u]) = idx[u] - 1
          /\ \A i \in 1..Len(progress[u]) :
                /\ progress[u][i].name = unitNames[u][i]
                /\ progress[u][i].done = i
                /\ progress[u][i].total = Len(unitNames[u])
                /\ progress[u][i].done <= progress[u][i].total
          /\ BatchReturned(u) => Len(progress[u]) = Len(unitNames[u])
          /\ (InBatch(u) /\ progress[u] # <<>>) =>
                LET last == progress[u][Len(progress[u])]
                IN  /\ job[u].current_artist = last.name
                    /\ job[u].done = last.done
                    /\ job[u].total = last.total

\* C11's case: a batch of two names, the first skipped as already classified
\* and the second failed, has returned after two calls.
C11_Witness ==
    \E u \in Units :
       /\ kind[u] = "web"
       /\ pc[u] = "reload"
       /\ unitNames[u] = <<"Abc", "Xyz">>
       /\ "Abc" \notin DOMAIN cls[u]
       /\ raised[u] = {"Xyz"}
       /\ Len(progress[u]) = 2

\* The name's trimmed, lowercased key is in the store with a genre list that
\* is neither empty nor ["unknown"].
StoredWithGenres(data, name) ==
    /\ NormalizedNames[name] \in DOMAIN data.artists
    /\ data.artists[NormalizedNames[name]].genres \notin {<<>>, <<"unknown">>}

\* C12: classify_batch sends a request only for the name it is at, which is
\* not stored with genres; of the names gone through, those stored with
\* genres have no entry in the result and every other has one, and each of
\* those others got its search request.
C12_SkipsClassified ==
    \A u \in Units :
       InBatch(u) =>
          /\ \A i \in 1..(idx[u] - 1) :
                StoredWithGenres(unitData[u], unitNames[u][i])
                   <=> unitNames[u][i] \notin DOMAIN cls[u]
          /\ pc[u] \in {"search", "tags"} =>
                /\ cur[u] = unitNames[u][idx[u]]
                /\ ~StoredWithGenres(unitData[u], cur[u])
          /\ pc[u] = "reload" =>
                sent[u].search - sent[u].repeats.search
                   = Cardinality({i \in 1..Len(unitNames[u]) :
                                     ~StoredWithGenres(unitData[u], unitNames[u][i])})

\* C12's case: of two names, the one stored with genres was skipped and the
\* one stored with the unknown pair was classified anew.
C12_Witness ==
    \E u \in Units :
       /\ kind[u] = "web"
       /\ pc[u] = "reload"
       /\ unitNames[u] = <<"Abc", "Xyz">>
       /\ StoredWithGenres(unitData[u], "Abc")
       /\ "xyz" \in DOMAIN unitData[u].artists
       /\ DOMAIN cls[u] = {"Xyz"}
       /\ sent[u].search = 1

\* No name of the unit's batch is stored with genres: all N are new.
AllNew(u) ==
    \A i \in 1..Len(unitNames[u]) : ~StoredWithGenres(unitData[u], unitNames[u][i])

\* C13, as claimed: a batch of N new names has sent exactly N search requests
\* and at most N tags requests when it returns, whatever the answers.
C13_Original ==
    \A u \in Units :
       (kind[u] = "web" /\ pc[u] = "reload" /\ AllNew(u)) =>
          /\ sent[u].search = Len(unitNames[u])
          /\ sent[u].tags <= Len(unitNames[u])

\* C13, amended: the same, not counting the requests that repeat a request
\* answered 503; and the tags requests so counted are at most the search
\* answers that carried an artist.
C13_RequestsPerName ==
    \A u \in Units :
       (kind[u] = "web" /\ AllNew(u)) =>
          /\ sent[u].search - sent[u].repeats.search <= Len(unitNames[u])
          /\ sent[u].tags - sent[u].repeats.tags <= sent[u].found
          /\ sent[u].found <= Len(unitNames[u])
          /\ pc[u] = "reload" =>
                sent[u].search - sent[u].repeats.search = Len(unitNames[u])

\* C13's case: a batch of two new names has returned after more than two
\* search requests, a 503 answer having been followed by a repeat, and after
\* a tags request for one name only.
C13_Witness ==
    \E u \in Units :
       /\ kind[u] = "web"
       /\ pc[u] = "reload"
       /\ AllNew(u)
       /\ Len(unitNames[u]) = 2
       /\ sent[u].search = 3
       /\ sent[u].repeats.search = 1
       /\ sent[u].tags = 1


\* ---------------------------------------------------- claims on validate

\* The two names are equal once trimmed and lowercased.
SameName(a, b) == NormalizedNames[a] = NormalizedNames[b]

\* The bounded difference check on the trimmed, lowercased names: the length
\* difference is at most 2, and so is it plus the position-wise mismatches.
BoundedDifference(a, b) ==
    LET x == NameChars[NormalizedNames[a]]
        y == NameChars[NormalizedNames[b]]
        short == IF Len(x) <= Len(y) THEN Len(x) ELSE Len(y)
        long == IF Len(x) <= Len(y) THEN Len(y) ELSE Len(x)
        mismatches == Cardinality({i \in 1..short : x[i] # y[i]})
    IN  long - short <= 2 /\ mismatches + (long - short) <= 2

\* The acceptance rule for one candidate of the service.
Acceptable(name, artist) ==
    \/ artist.score >= 90 /\ SameName(artist.name, name)
    \/ /\ artist.score >= 80
       /\ SameName(artist.name, name) \/ BoundedDifference(name, artist.name)

\* C14: validate returns the service's name of the first candidate, in rank
\* order, that the acceptance rule admits, and none when there is no such
\* candidate.
C14_ValidateFirstAcceptable ==
    fn = "validate" =>
       LET ok == {i \in 1..Len(arg.artists) : Acceptable(arg.name, arg.artists[i])}
       IN  IF ok = {}
           THEN res.match = ""
           ELSE res.match = arg.artists[CHOOSE i \in ok : \A j \in ok : i <= j].name

\* C14's case: the first candidate has the query's name and too low a score,
\* the second is a misreading with score 80 and is returned, not the third,
\* which has the query's name and score 90.
C14_Witness ==
    /\ fn = "validate"
    /\ arg.name = "Abc"
    /\ arg.artists = <<[name |-> "Abc", score |-> 79],
                       [name |-> "Abd", score |-> 80],
                       [name |-> "Abc", score |-> 90]>>
    /\ res.match = "Abd"

\* C15, as claimed: no more than 3 requests are made for one name: after
\* three 503 answers validate returns none.
C15_ValidateThreeAttempts ==
    \A u \in Units : pc[u] = "validate" => attempts[u] < 3

\* ------------------------------------------- claims on _clean_artist_names

\* The names of the call, as characters.
CleanArg == [i \in 1..Len(arg.names) |-> TextChars[arg.names[i]]]

\* The positions of a list whose entry is equal, ignoring case, to no earlier one.
FirstSeen(pieces) ==
    {i \in 1..Len(pieces) : \A k \in 1..(i - 1) : Lower(pieces[k]) # Lower(pieces[i])}

\* The n-th smallest member of a set of positions.
Nth(positions, n) ==
    CHOOSE i \in positions : Cardinality({k \in positions : k <= i}) = n

\* The example of the specification.
CleanExample == <<"Artist A b2b Artist B (Sunrise Set)", "artist a">>

\* C16: for every input list, with pieces the list of the inputs split on
\* the b2b marker, stripped of their parenthesized notes and of blanks, the
\* empty ones dropped: the result has no two entries equal ignoring case, and
\* it is the pieces first seen, in their order and with their casing; the
\* example gives ["Artist A", "Artist B"].
C16_CleanDeduplicates ==
    fn = "clean" =>
        LET pieces == CleanAll(CleanArg)
            first  == FirstSeen(pieces)
        IN  /\ \A i \in 1..Len(pieces) : pieces[i] # <<>>
            /\ \A i, j \in 1..Len(res.names) : i < j => Lower(res.names[i]) # Lower(res.names[j])
            /\ Len(res.names) = Cardinality(first)
            /\ \A n \in 1..Len(res.names) : res.names[n] = pieces[Nth(first, n)]
            /\ arg.names = CleanExample =>
                  res.names = <<TextChars["Artist A"], TextChars["Artist B"]>>

\* C16 witness: the example has been cleaned, its second name dropped as a
\* duplicate of the first piece.
C16_Witness ==
    /\ fn = "clean"
    /\ arg.names = CleanExample
    /\ Len(CleanAll(CleanArg)) = 3
    /\ Len(res.names) = 2

\* --------------------------------------------------- claims on _is_ocr_noise

\* C17: "June 14", "VIP" and "Main Stage 2" are all classified as noise.
C17_LabelsAreNoise ==
    fn = "noise" /\ arg.text \in {"June 14", "VIP", "Main Stage 2"} => res.noise = TRUE

\* C18: "Fred again..", a name with literal dots, is not classified as noise.
C18_DotsAreNotNoise ==
    fn = "noise" /\ arg.text = "Fred again.." => res.noise = FALSE


\* -------------------------------------------- claims on _find_similar_artists

\* The artists of the call's all_artists.
AllArtists == {arg.all_artists[i].artist : i \in 1..Len(arg.all_artists)}

\* C19: the result has at most k artists, and contains neither the target
\* nor an artist whose genres are exactly ["unknown"], for every target taken
\* from all_artists, one with a leading blank in its stored name included.
C19_ExcludesTargetAndUnknown ==
    fn = "similar" =>
        /\ Len(res.artists) <= arg.k
        /\ \A n \in 1..Len(res.artists) :
              /\ res.artists[n] # arg.target
              /\ res.artists[n].genres # UNKNOWN

\* The tags of an artist that count, as a set.
TagsOf(a) == (Range(a.genres) \cup Range(a.timbre)) \ {"unknown"}

\* The square of the cosine of the tag sets of t and a, but for the factor
\* that depends on t alone: shared * shared / size, and 0 for an empty set.
Closeness(t, a) ==
    [num |-> Cardinality(TagsOf(t) \cap TagsOf(a)) * Cardinality(TagsOf(t) \cap TagsOf(a)),
     den |-> IF TagsOf(a) = {} THEN 1 ELSE Cardinality(TagsOf(a))]

\* a is strictly more similar to t than b is.
Closer(t, a, b) ==
    Closeness(t, a).num * Closeness(t, b).den > Closeness(t, b).num * Closeness(t, a).den

\* The position of an artist in the iteration order of all_artists.
Pos(a) == CHOOSE i \in 1..Len(arg.all_artists) : arg.all_artists[i].artist = a

\* a comes before b in the order of the result: more similar to the target,
\* or as similar and earlier in all_artists.
Precedes(a, b) ==
    \/ Closer(arg.target, a, b)
    \/ ~Closer(arg.target, b, a) /\ Pos(a) < Pos(b)

\* The artists other than the target whose genres are not exactly ["unknown"].
Eligible == {a \in AllArtists : a # arg.target /\ a.genres # UNKNOWN}

\* The result is made of artists of all_artists, in the order of Precedes.
ResultOrdered ==
    /\ \A n \in 1..Len(res.artists) : res.artists[n] \in AllArtists
    /\ \A m, n \in 1..Len(res.artists) : m < n => Precedes(res.artists[m], res.artists[n])

\* An eligible artist is left out only of a result of k artists that all
\* precede it.
ResultTakesTheFirst ==
    \A a \in Eligible :
        (\A n \in 1..Len(res.artists) : res.artists[n] # a) =>
            /\ Len(res.artists) = arg.k
            /\ \A n \in 1..Len(res.artists) : Precedes(res.artists[n], a)

\* No artist of all_artists has a tag other than "unknown".
EmptyVocabulary == \A a \in AllArtists : TagsOf(a) = {}

\* C20 as stated: the result is the eligible artists, the most similar
\* first and those of equal similarity in the iteration order of all_artists,
\* also when the vocabulary is empty or a vector is all zero (similarity 0).
C20_Original ==
    fn = "similar" => ResultOrdered /\ ResultTakesTheFirst

\* C20: the result is the eligible artists, the most similar first and those of
\* equal similarity in the iteration order of all_artists, an all-zero vector
\* giving similarity 0; with an empty vocabulary the result is empty.
C20_SimilarOrdered ==
    fn = "similar" =>
        /\ ResultOrdered
        /\ IF EmptyVocabulary THEN res.artists = <<>> ELSE ResultTakesTheFirst

\* C20 witness: a result of three artists, the first more similar to the target
\* than the second, the third as similar as the second and after it in
\* all_artists, with an all-zero vector and an eligible artist left out.
C20_Witness ==
    /\ fn = "similar"
    /\ Len(res.artists) = 3
    /\ Closer(arg.target, res.artists[1], res.artists[2])
    /\ ~Closer(arg.target, res.artists[2], res.artists[3])
    /\ TagsOf(res.artists[3]) = {}
    /\ Pos(res.artists[2]) < Pos(res.artists[3])


\* ------------------------------------------- claims on the pipeline's outcome

\* The unit has no artist name to merge: the cleaned names of its page are
\* none (web), or its worker ended with no validated name (image).
NoNames(u) ==
    \/ kind[u] = "web" /\ unitNames[u] = <<>>
    \/ kind[u] = "image" /\ pc[u] = "end" /\ validated[u] = <<>>

\* C22: a unit of work with zero artist names never has status done; once its
\* worker has ended its status is error, with a message, and DATA_FILE is as
\* it was before the unit (one unit: the file it started on).
C22_NoNamesFails ==
    \A u \in Units :
       NoNames(u) =>
          /\ job[u].status # "done"
          /\ file \in {NoFile, PriorFile}
          /\ pc[u] = "end" => job[u].status = "error" /\ job[u].error # ""


\* ------------------------------------------------- claims on concurrent units

\* Unit u's os.replace succeeds.
ReplaceStep(u) == pc[u] = "replace" /\ pc'[u] = "finish"

\* The stored artist of this key has a festival reference with this url.
Referenced(data, key, url) ==
    key \in DOMAIN data.artists /\ ArtistHasUrl(data.artists[key], url)

\* C21: a save puts into DATA_FILE the saving unit's own document, its merge into
\* the store it reloaded, and nothing of what was saved since that reload: of
\* two units that both reloaded before either saved, the later writer's
\* document is all that is left.
C21_LaterWriterWins ==
    [][\A u \in Units : ReplaceStep(u) => file'.data = unitData[u]]_vars

\* C21's case: both units are done, both merged the artist "abc", each for its
\* own festival url, and DATA_FILE holds the document of one of them, in
\* which the other's festival reference for "abc" is absent.
C21_Witness ==
    \E u, v \in Units :
       /\ job[u].status = "done" /\ job[v].status = "done"
       /\ fest[u].url # fest[v].url
       /\ Referenced(unitData[u], "abc", fest[u].url)
       /\ Referenced(unitData[v], "abc", fest[v].url)
       /\ file.data = unitData[v]
       /\ ~Referenced(file.data, "abc", fest[u].url)


\* ------------------------------------------------- claims on the festival name
\* The candidates of the call made, in the order they are tried.
CandidatesOfCall ==
    FestivalCandidates([i \in 1..Len(arg.title) |-> PageChars[arg.title[i]]],
                       [i \in 1..Len(arg.h1) |-> PageChars[arg.h1[i]]],
                       PageChars[arg.hostname])

\* A name of the deny-list, in any case.
DenyListed(cs) == \E g \in GENERIC_NAMES : Lower(cs) = PageChars[g]

\* C23: the festival name returned is never a term of the deny-list; when
\* every candidate is one, "Unknown Festival" is returned.
C23_NeverGeneric ==
    fn = "festival" =>
       /\ ~DenyListed(res.festival)
       /\ (\A i \in 1..Len(CandidatesOfCall) : DenyListed(CandidatesOfCall[i]))
             => res.festival = PageChars["Unknown Festival"]


\* ------------------------------------------------- claims on the job's status
\* The step is one of unit u's thread.
StepOf(u) == pc'[u] # pc[u]

\* The status of u's job moves from a to b.
StatusMoves(u, a, b) == job[u].status = a /\ job'[u].status = b

\* C24: the status of a job moves from running to done or from running to
\* error only, and not at all afterwards; the step that sets done is the one
\* after the unit's os.replace; a step of a unit that changes DATA_FILE is its
\* os.replace, after which the unit's status can only become done.
C24_SingleTerminalStatus ==
    [][\A u \in Units :
          /\ job'[u].status # job[u].status =>
                \/ StatusMoves(u, "none", "running")
                \/ StatusMoves(u, "running", "done")
                \/ StatusMoves(u, "running", "error")
          /\ StatusMoves(u, "running", "done") => pc[u] = "finish"
          /\ StepOf(u) /\ file' # file =>
                /\ pc[u] = "replace" /\ pc'[u] = "finish"
                /\ job'[u].status = "running"
                /\ file'.data = unitData[u] /\ IsComplete(file')
          /\ StepOf(u) /\ pc[u] = "finish" => StatusMoves(u, "running", "done")
          /\ StatusMoves(u, "running", "error") => file' = file /\ pc[u] # "finish"
      ]_vars

\* C24 (witness): one job is done and the other ended in error after its
\* save failed; DATA_FILE holds the document of the first.
C24_Witness ==
    \E u, v \in Units :
       /\ job[u].status = "done" /\ job[v].status = "error"
       /\ job[v].error = "exception" /\ unitData[v].metadata.last_modified # 0
       /\ file.exists /\ file.data = unitData[u]


\* ------------------------------------------------ claims on the reloaded store
\* Every artist of old with each of its festival references, and every
\* festival entry of old, is in new.
Preserves(old, new) ==
    /\ \A key \in DOMAIN old.artists :
          /\ key \in DOMAIN new.artists
          /\ \A i \in 1..Len(old.artists[key].festivals) :
                ArtistHasUrl(new.artists[key], old.artists[key].festivals[i].url)
    /\ \A i \in 1..Len(old.festivals) : FestivalUrlExists(new, old.festivals[i].url)

\* Unit v's os.replace has happened.
HasSaved(v) == pc[v] = "finish" \/ job[v].status = "done"

\* The document in DATA_FILE, the empty one without the file.
Persisted(f) == IF f.exists THEN f.data ELSE EmptyData

\* The steps of unit u from its reload to its os.replace: the reload gives
\* the document DATA_FILE holds at that moment, the merge is applied to it,
\* and merge, stamp and os.replace keep all of it.
FromReloadToReplace(u) ==
    /\ pc[u] = "reload" /\ pc'[u] = "merge" => unitData'[u] = Persisted(file)
    /\ pc[u] = "merge" /\ StepOf(u) =>
          /\ unitData'[u] =
                MergeArtists(unitData[u], MergeInput(u), cls[u], fest[u], clock')
          /\ Preserves(unitData[u], unitData'[u])
    /\ pc[u] \in {"save", "write", "replace"} /\ StepOf(u) =>
          Preserves(unitData[u], unitData'[u])
    /\ pc[u] = "replace" /\ pc'[u] = "finish" => file'.data = unitData'[u]

\* C25 (as stated): the merge is applied to the reloaded snapshot, and the
\* snapshot holds what every unit that saved before the reload wrote.
C25_Original ==
    [][\A u \in Units :
          /\ FromReloadToReplace(u)
          /\ pc[u] = "reload" /\ pc'[u] = "merge" =>
                \A v \in Units \ {u} :
                   HasSaved(v) => Preserves(unitData[v], unitData'[u])
      ]_vars

\* C25: the merge is applied to the reloaded snapshot, and the snapshot holds
\* what the last unit to save before the reload wrote: the save of a unit
\* whose document DATA_FILE still holds at the reload is preserved in the
\* store this unit writes.
C25_MergesReloadedSnapshot ==
    [][\A u \in Units :
          /\ FromReloadToReplace(u)
          /\ pc[u] = "reload" /\ pc'[u] = "merge" =>
                \A v \in Units \ {u} :
                   HasSaved(v) /\ file.data = unitData[v]
                      => Preserves(unitData[v], unitData'[u])
      ]_vars

\* C25 (witness): two units are done, one merged "Xyz" and saved, the other
\* merged "Abc" into the snapshot it reloaded afterwards, and DATA_FILE holds
\* the second unit's document with both artists.
C25_Witness ==
    \E u, v \in Units :
       /\ job[u].status = "done" /\ job[v].status = "done"
       /\ unitNames[u] = <<"Xyz">> /\ unitNames[v] = <<"Abc">>
       /\ unitData[u].metadata.last_modified < unitData[v].metadata.last_modified
       /\ DOMAIN unitData[u].artists = {"xyz"}
       /\ file.data = unitData[v]
       /\ DOMAIN file.data.artists = {"abc", "xyz"}

\* ------------------------------------------- claims on the shape of the records
\* genres and timbre of a record as the claim has them: the sentinel, or a
\* list of 1 to 3 genres and of 1 to 4 descriptors.
WellShaped(artist) ==
    /\ artist.genres = UNKNOWN \/ Len(artist.genres) \in 1..3
    /\ artist.timbre = UNKNOWN \/ Len(artist.timbre) \in 1..4

\* C26: every artist record of DATA_FILE has well-shaped genres and timbre;
\* none has an empty genres list.
C26_RecordsWellShaped ==
    \A key \in DOMAIN file.data.artists : WellShaped(file.data.artists[key])


\* ---------------------------------------- claims on the stored classification
\* The file holds the artist of this key with genres that are real.
StoredWithRealGenres(f, key) ==
    /\ f.exists
    /\ key \in DOMAIN f.data.artists
    /\ f.data.artists[key].genres # <<>>
    /\ f.data.artists[key].genres # UNKNOWN

\* C27: no save replaces the real genres DATA_FILE holds for an artist by
\* the sentinel ["unknown"].
C27_NoRegression ==
    [][\A key \in DOMAIN file.data.artists :
          StoredWithRealGenres(file, key) /\ key \in DOMAIN file'.data.artists
             => file'.data.artists[key].genres # UNKNOWN]_vars


\* ------------------------------------------------ claims on festival references
\* The artist carries a festival reference of this name.
ArtistAtFestival(artist, name) ==
    \E i \in 1..Len(artist.festivals) : artist.festivals[i].name = name

\* The festivals list has an entry of this name.
FestivalListed(data, name) ==
    \E i \in 1..Len(data.festivals) : data.festivals[i].name = name

\* C28: when a unit is done and DATA_FILE holds the document it saved, every
\* name it merged carries a reference to the unit's festival, by name, and
\* the festivals list has an entry of that name.
C28_MergedNamesAtFestival ==
    \A u \in Units :
       job[u].status = "done" /\ file.data = unitData[u] =>
          /\ FestivalListed(file.data, fest[u].name)
          /\ \A i \in 1..Len(MergeInput(u)) :
                /\ NormalizeName(MergeInput(u)[i]) \in DOMAIN file.data.artists
                /\ ArtistAtFestival(file.data.artists[NormalizeName(MergeInput(u)[i])],
                                    fest[u].name)


\* ------------------------------------------- claims on what a merge leaves alone
\* The trimmed, lowercased form of a name, letter by letter.
TrimmedLower(name) == FromChars(Lower(Strip(NameChars[name])))

\* The keys of the names the last call was given.
GivenKeys == {TrimmedLower(call.names[i]) : i \in 1..Len(call.names)}

\* C29: the last merge_artists call left every record whose key is not that
\* of a given name as it was, and every Festival entry there was, with its
\* artist_count; of a record there was, it left the key, the display name
\* and first_seen; it added records for given names only; and every record's
\* key is the trimmed, lowercased form of the name it was created from.
C29_MergeFrame ==
    Called =>
       /\ \A key \in DOMAIN storeBefore.artists :
             /\ key \in DOMAIN store.artists
             /\ key \notin GivenKeys => store.artists[key] = storeBefore.artists[key]
             /\ store.artists[key].name = storeBefore.artists[key].name
             /\ store.artists[key].first_seen = storeBefore.artists[key].first_seen
       /\ DOMAIN store.artists = DOMAIN storeBefore.artists \cup GivenKeys
       /\ Len(store.festivals) >= Len(storeBefore.festivals)
       /\ \A i \in 1..Len(storeBefore.festivals) :
             store.festivals[i] = storeBefore.festivals[i]
       /\ store.metadata = storeBefore.metadata
       /\ \A key \in DOMAIN store.artists : key = TrimmedLower(store.artists[key].name)

\* C29 (witness): a merge into a store with two artists and a Festival entry
\* that was given one of the two, under another spelling and for another
\* festival: its record changed, the other's and the entry did not.
C29_Witness ==
    /\ Called
    /\ DOMAIN storeBefore.artists = {"abc", "xyz"}
    /\ call.names = <<" abc">>
    /\ storeBefore.artists["abc"].name = "Abc"
    /\ storeBefore.festivals # <<>>
    /\ ~FestivalUrlExists(storeBefore, call.festival_info.url)
    /\ store.artists["abc"] # storeBefore.artists["abc"]
    /\ store.artists["xyz"] = storeBefore.artists["xyz"]

=============================================================================
